---------------------------- MODULE Spec2Model ----------------------------
(***************************************************************************)
(* Model of the indirect-rate forecasting engine (src/src/indirectrates):  *)
(* account mapping, aggregation of actuals, the run-rate baseline, the     *)
(* application of scenario events, the cascaded rate engine and the        *)
(* year-to-date rates.                                                     *)
(*                                                                         *)
(* Numbers.  The engine computes with float64.  The model computes with    *)
(* exact rationals <<n, d>> (d > 0, lowest terms) and with one more value, *)
(* NaN == <<0, 0>>, which pandas uses for a missing cell.  Rounding of     *)
(* float64 is not modelled.                                                *)
(*                                                                         *)
(* Periods.  A monthly pandas Period is the integer 12 * year + month - 1. *)
(***************************************************************************)
EXTENDS Integers, Sequences, FiniteSets, TLC

(***************************************************************************)
(* Bounds of the model.                                                    *)
(***************************************************************************)
MaxTier == 2
MaxAmount == 1
MaxForecast == 2
MaxRunRate == 3

(***************************************************************************)
(* Rational arithmetic with NaN.                                           *)
(***************************************************************************)
Abs(n) == IF n < 0 THEN -n ELSE n

RECURSIVE GCD(_, _)
GCD(a, b) == IF b = 0 THEN a ELSE GCD(b, a % b)

NaN == <<0, 0>>

IsNaN(x) == x[2] = 0

Norm(n, d) ==
    LET g == GCD(Abs(n), Abs(d))
        s == IF d < 0 THEN -1 ELSE 1
    IN  <<s * (n \div g), s * (d \div g)>>

R(n) == <<n, 1>>

Zero == R(0)

RAdd(x, y) ==
    IF IsNaN(x) \/ IsNaN(y) THEN NaN
    ELSE Norm(x[1] * y[2] + y[1] * x[2], x[2] * y[2])

RSub(x, y) ==
    IF IsNaN(x) \/ IsNaN(y) THEN NaN
    ELSE Norm(x[1] * y[2] - y[1] * x[2], x[2] * y[2])

RMul(x, y) ==
    IF IsNaN(x) \/ IsNaN(y) THEN NaN
    ELSE Norm(x[1] * y[1], x[2] * y[2])

\* x / y of two floats, for y # 0 (every division of the engine is guarded).
RDiv(x, y) ==
    IF IsNaN(x) \/ IsNaN(y) \/ y[1] = 0 THEN NaN
    ELSE Norm(x[1] * y[2], x[2] * y[1])

RLeq(x, y) == ~IsNaN(x) /\ ~IsNaN(y) /\ x[1] * y[2] <= y[1] * x[2]

RLt(x, y) == ~IsNaN(x) /\ ~IsNaN(y) /\ x[1] * y[2] < y[1] * x[2]

\* Series.fillna(v)
fillna(x, v) == IF IsNaN(x) THEN v ELSE x

\* Series.sum() / DataFrame.sum(axis=1): NaN cells are skipped.
RECURSIVE SumSeq(_)
SumSeq(s) ==
    IF s = <<>> THEN Zero
    ELSE RAdd(fillna(Head(s), Zero), SumSeq(Tail(s)))

\* The sum of f[x] over the finite set S, NaN cells skipped.
RECURSIVE SumOver(_, _)
SumOver(f, S) ==
    IF S = {} THEN Zero
    ELSE LET x == CHOOSE y \in S : TRUE
         IN  RAdd(fillna(f[x], Zero), SumOver(f, S \ {x}))

Range(s) == {s[i] : i \in DOMAIN s}

(***************************************************************************)
(* model._safe_div: the denominator 0 is replaced by NaN, the quotient's   *)
(* NaN by 0.                                                               *)
(***************************************************************************)
\* A variant that divides without the guard.
unsafe_div(num, den) == RDiv(num, den)

safe_div(num, den) ==
    LET den2 == IF ~IsNaN(den) /\ den[1] = 0 THEN NaN ELSE den
    IN  fillna(RDiv(num, den2), Zero)

(***************************************************************************)
(* Tables.  A period-indexed DataFrame is [index, columns, data]: index is *)
(* the sequence of its row labels, columns the set of its column names,    *)
(* data[p][c] the cell of row p and column c.                              *)
(***************************************************************************)
HasPeriod(t, p) == p \in Range(t.index)

\* The cell (p, c) as an aligned lookup sees it: NaN when the row is absent.
Cell(t, p, c) == IF HasPeriod(t, p) /\ c \in t.columns THEN t.data[p][c] ELSE NaN

\* The columns of a row of Direct_Costs_By_Project.
DirectCols == {"DirectLabor$", "DirectLaborHrs", "Subk", "ODC", "Travel"}

\* model.py:36 and model.py:346: the columns summed into TCI.
TCICols == <<"DirectLabor$", "Subk", "ODC", "Travel">>

BaseKeys == {"DL", "DLH", "TL", "TCI"}

(***************************************************************************)
(* pandas Period: month and year of the integer 12 * year + month - 1.     *)
(***************************************************************************)
Month(p) == (p % 12) + 1

Year(p) == p \div 12

PeriodOf(year, month) == 12 * year + month - 1

(***************************************************************************)
(* compute_rates_and_impacts, lines 337-343: the rates table.              *)
(***************************************************************************)
\* projection.pools.reindex(columns=rate_def.pool, fill_value=0.0).sum(axis=1)
pool_total(pools, rate_def, p) ==
    SumSeq([i \in DOMAIN rate_def.pool |->
              IF rate_def.pool[i] \in pools.columns
              THEN pools.data[p][rate_def.pool[i]] ELSE Zero])

\* A variant that multiplies the pool total by the base.
rate_value_of_product(projection, rate_def, p) ==
    fillna(RMul(pool_total(projection.pools, rate_def, p),
                Cell(projection.bases, p, rate_def.base)), Zero)

\* A variant in which a rate above tier 0 is taken on a burdened base.
rate_value_burdened(projection, rate_def, p) ==
    safe_div(pool_total(projection.pools, rate_def, p),
             RAdd(Cell(projection.bases, p, rate_def.base),
                  IF rate_def.cascade_order = 0 THEN Zero
                  ELSE pool_total(projection.pools, rate_def, p)))

rate_value(projection, rate_def, p) ==
    safe_div(pool_total(projection.pools, rate_def, p),
             Cell(projection.bases, p, rate_def.base))

RateNames(config) == {config.rates[i].name : i \in DOMAIN config.rates}

compute_rates(projection, config) ==
    [index   |-> projection.pools.index,
     columns |-> RateNames(config),
     data    |-> [p \in Range(projection.pools.index) |->
                    [n \in RateNames(config) |->
                       LET rd == CHOOSE r \in Range(config.rates) : r.name = n
                       IN  rate_value(projection, rd, p)]]]

\* A variant that knows the bases DL, TL and DLH only.
UnknownBase_labor_only(projection, config) ==
    \E i \in DOMAIN config.rates : config.rates[i].base \notin {"DL", "TL", "DLH"}

\* line 340: a rate definition names a base that is no column of bases.
UnknownBase(projection, config) ==
    \E i \in DOMAIN config.rates : config.rates[i].base \notin projection.bases.columns

(***************************************************************************)
(* ytd.compute_ytd_rates.                                                  *)
(***************************************************************************)
\* ytd._safe_div on scalars: num / den if den != 0 else 0.0
safe_div_scalar(num, den) == IF den[1] # 0 THEN RDiv(num, den) ELSE Zero

\* A variant that starts every window in the year before the period's.
fy_begin_prior_year(period, fy_start_month) ==
    PeriodOf(Year(period) - 1, fy_start_month)

fy_begin(period, fy_start_month) ==
    IF Month(period) >= fy_start_month
    THEN PeriodOf(Year(period), fy_start_month)
    ELSE PeriodOf(Year(period) - 1, fy_start_month)

ytd_window(pools, period, fy_start_month) ==
    {q \in Range(pools.index) : q >= fy_begin(period, fy_start_month) /\ q <= period}

\* A variant that averages the monthly rates of the window.
ytd_rate_mean_of_rates(pools, bases, rate_def, period, fy_start_month) ==
    LET window == ytd_window(pools, period, fy_start_month)
        sum    == SumOver([q \in window |->
                             safe_div(pool_total(pools, rate_def, q),
                                      Cell(bases, q, rate_def.base))], window)
    IN  safe_div_scalar(sum, R(Cardinality(window)))

ytd_rate(pools, bases, rate_def, period, fy_start_month) ==
    LET window   == ytd_window(pools, period, fy_start_month)
        cum_pool == SumOver([q \in window |-> pool_total(pools, rate_def, q)], window)
        cum_base == IF rate_def.base \in bases.columns
                    THEN SumOver([q \in window |-> Cell(bases, q, rate_def.base)], window)
                    ELSE Zero
    IN  safe_div_scalar(cum_pool, cum_base)

compute_ytd_rates(pools, bases, config, fy_start) ==
    [index   |-> pools.index,
     columns |-> RateNames(config),
     data    |-> [p \in Range(pools.index) |->
                    [n \in RateNames(config) |->
                       LET rd == CHOOSE r \in Range(config.rates) : r.name = n
                       IN  ytd_rate(pools, bases, rd, p, Month(fy_start))]]]

(***************************************************************************)
(* compute_rates_and_impacts, lines 345-387: the cascade over the project  *)
(* rows.                                                                   *)
(***************************************************************************)
\* sorted(config.rates.items(), key=cascade_order): Python's sort is stable.
RECURSIVE sort_tiers(_, _, _)
sort_tiers(rs, t, hi) ==
    IF t > hi THEN <<>>
    ELSE SelectSeq(rs, LAMBDA r : r.cascade_order = t) \o sort_tiers(rs, t + 1, hi)

sorted_rates(config) ==
    IF config.rates = <<>> THEN <<>>
    ELSE LET tiers == {config.rates[i].cascade_order : i \in DOMAIN config.rates}
             lo == CHOOSE t \in tiers : \A u \in tiers : t <= u
             hi == CHOOSE t \in tiers : \A u \in tiers : t >= u
         IN  sort_tiers(config.rates, lo, hi)

\* direct["TCI"] = direct[["DirectLabor$", "Subk", "ODC", "Travel"]].sum(axis=1)
row_TCI(row) == SumSeq([i \in DOMAIN TCICols |-> row.c[TCICols[i]]])

\* A variant that takes the total cost input for TL.
base_column_tl_as_tci(row, base) ==
    CASE base = "DL"  -> row.c["DirectLabor$"]
      [] base = "TL"  -> row_TCI(row)
      [] base = "DLH" -> row.c["DirectLaborHrs"]
      [] base = "TCI" -> row_TCI(row)

\* _base_column_map, and the column of the row it names.
base_column(row, base) ==
    CASE base = "DL"  -> row.c["DirectLabor$"]
      [] base = "TL"  -> row.c["DirectLabor$"]
      [] base = "DLH" -> row.c["DirectLaborHrs"]
      [] base = "TCI" -> row_TCI(row)

\* Variants: only the tier immediately below, and the rate's own tier too.
is_prior_tier_adjacent(tier, cascade_order) == tier = cascade_order - 1

is_prior_tier_or_same(tier, cascade_order) == tier <= cascade_order

\* line 375: the tiers whose dollar columns enter the applied base.
is_prior_tier(tier, cascade_order) == tier < cascade_order

\* A variant that takes the prior dollar columns off the raw base.
apply_to_subtract(row, rate_def, done) ==
    LET raw   == base_column(row, rate_def.base)
        prior == SelectSeq(done, LAMBDA d : is_prior_tier(d.tier, rate_def.cascade_order))
    IN  IF rate_def.cascade_order = 0 THEN raw
        ELSE IF prior # <<>>
             THEN RSub(raw, SumSeq([i \in DOMAIN prior |-> prior[i].dollar]))
             ELSE raw

\* lines 368-381: the applied base of one rate on one row.  done holds the
\* dollar columns computed so far, as [name, tier, dollar], in their order.
apply_to(row, rate_def, done) ==
    LET raw   == base_column(row, rate_def.base)
        prior == SelectSeq(done, LAMBDA d : is_prior_tier(d.tier, rate_def.cascade_order))
    IN  IF rate_def.cascade_order = 0 THEN raw
        ELSE IF prior # <<>>
             THEN RAdd(raw, SumSeq([i \in DOMAIN prior |-> prior[i].dollar]))
             ELSE raw

\* lines 364-385 on one row: rv[name] is the row's merged rate column.
RECURSIVE cascade(_, _, _, _)
cascade(sorted, row, rv, done) ==
    IF sorted = <<>> THEN done
    ELSE LET rd == Head(sorted)
             dollar == RMul(apply_to(row, rd, done), rv[rd.name])
         IN  cascade(Tail(sorted), row, rv,
                     Append(done, [name |-> rd.name, tier |-> rd.cascade_order,
                                   dollar |-> dollar]))

\* The dollar columns of a row as a function of the rate name.
dollars_of(config, done) ==
    [n \in RateNames(config) |->
       LET i == CHOOSE j \in DOMAIN done : done[j].name = n IN done[i].dollar]

\* A variant that loads the labor dollars only.
loaded_cost_labor_only(row, dollars) ==
    RAdd(row.c["DirectLabor$"], SumOver(dollars, DOMAIN dollars))

\* line 387: LoadedCost$ of one row.
loaded_cost(row, dollars) == RAdd(row_TCI(row), SumOver(dollars, DOMAIN dollars))

\* line 347: direct.merge(rates, on="Period", how="left")
merged_rates(rates, row) ==
    [n \in rates.columns |-> Cell(rates, row.Period, n)]

\* lines 431: the merged year-to-date rate, NaN filled with 0.
merged_ytd_rates(ytd, row) ==
    [n \in ytd.columns |-> fillna(Cell(ytd, row.Period, n), Zero)]

\* One row of direct after lines 345-436.
impact_row(projection, config, rates, ytd, with_ytd, row) ==
    LET d  == dollars_of(config, cascade(sorted_rates(config), row,
                                         merged_rates(rates, row), <<>>))
        dy == IF with_ytd
              THEN dollars_of(config, cascade(sorted_rates(config), row,
                                              merged_ytd_rates(ytd, row), <<>>))
              ELSE [n \in {} |-> Zero]
    IN  [Period |-> row.Period, Project |-> row.Project, c |-> row.c,
         dollar |-> d, LoadedCost |-> loaded_cost(row, d),
         dollar_ytd |-> dy,
         LoadedCost_ytd |-> IF with_ytd THEN loaded_cost(row, dy) ELSE NaN]

\* lines 438-446: one output row per (Period, Project), the dollar columns summed.
group_impacts(rows, with_ytd) ==
    LET keys == {<<rows[i].Period, rows[i].Project>> : i \in DOMAIN rows}
        of(k) == SelectSeq(rows, LAMBDA r : <<r.Period, r.Project>> = k)
        col(k, F(_)) == SumSeq([i \in DOMAIN of(k) |-> F(of(k)[i])])
    IN  [k \in keys |->
           [c |-> [x \in {"DirectLabor$", "Subk", "ODC", "Travel"} |->
                     col(k, LAMBDA r : r.c[x])],
            dollar |-> [n \in DOMAIN rows[1].dollar |-> col(k, LAMBDA r : r.dollar[n])],
            LoadedCost |-> col(k, LAMBDA r : r.LoadedCost),
            dollar_ytd |-> [n \in DOMAIN rows[1].dollar_ytd |->
                              col(k, LAMBDA r : r.dollar_ytd[n])],
            LoadedCost_ytd |-> IF with_ytd THEN col(k, LAMBDA r : r.LoadedCost_ytd)
                               ELSE NaN]]

NoPeriod == -1

\* compute_rates_and_impacts(projection, config, fy_start); fy_start = NoPeriod
\* stands for None.
compute_rates_and_impacts(projection, config, fy_start) ==
    IF UnknownBase(projection, config)
    THEN [status |-> "ValueError"]
    ELSE LET rates    == compute_rates(projection, config)
             has_ytd  == fy_start # NoPeriod
             ytd      == IF has_ytd
                         THEN compute_ytd_rates(projection.pools, projection.bases,
                                                config, fy_start)
                         ELSE rates
             with_ytd == has_ytd /\ projection.pools.index # <<>> /\ config.rates # <<>>
             direct   == projection.direct_by_project
             rows     == [i \in DOMAIN direct |->
                            impact_row(projection, config, rates, ytd, with_ytd, direct[i])]
         IN  [status    |-> "ok",
              rates     |-> rates,
              rows      |-> rows,
              impacts   |-> group_impacts(rows, with_ytd),
              has_ytd   |-> has_ytd,
              ytd_rates |-> ytd]


(***************************************************************************)
(* Sorting.  sort_index() and the grouping operations of pandas return the *)
(* period labels in ascending order.                                       *)
(***************************************************************************)
RECURSIVE SortedSeq(_)
SortedSeq(S) ==
    IF S = {} THEN <<>>
    ELSE LET m == CHOOSE x \in S : \A y \in S : x <= y
         IN  <<m>> \o SortedSeq(S \ {m})

(***************************************************************************)
(* mapping.map_accounts_to_pools.  A ledger row is [Period, Account,       *)
(* Amount]; a row of the account map is [Account, Pool, IsUnallowable],    *)
(* the flag one of "True", "False" and, for a blank cell, "NaN".  After    *)
(* the left merge a ledger row without a match has Pool and flag "NaN".    *)
(***************************************************************************)
merge_left(gl, mp) ==
    LET matches(g) == SelectSeq(mp, LAMBDA m : m.Account = g.Account)
        one(g, m)  == [Period |-> g.Period, Account |-> g.Account, Amount |-> g.Amount,
                       Pool |-> m.Pool, IsUnallowable |-> m.IsUnallowable]
        none(g)    == [Period |-> g.Period, Account |-> g.Account, Amount |-> g.Amount,
                       Pool |-> "NaN", IsUnallowable |-> "NaN"]
        rows(g)    == IF matches(g) = <<>> THEN <<none(g)>>
                      ELSE [i \in DOMAIN matches(g) |-> one(g, matches(g)[i])]
        RECURSIVE all(_)
        all(k) == IF k > Len(gl) THEN <<>> ELSE rows(gl[k]) \o all(k + 1)
    IN  all(1)

\* lines 16-20: with any unmatched row, every blank Pool becomes "Unmapped"
\* and every blank flag of the column becomes True.
fill_unmapped(merged) ==
    LET missing == Len(SelectSeq(merged, LAMBDA r : r.Pool = "NaN"))
    IN  IF missing > 0
        THEN [i \in DOMAIN merged |->
                [merged[i] EXCEPT
                   !.Pool = IF @ = "NaN" THEN "Unmapped" ELSE @,
                   !.IsUnallowable = IF @ = "NaN" THEN "True" ELSE @]]
        ELSE merged

map_accounts_to_pools(gl, mp) ==
    LET merged == fill_unmapped(merge_left(gl, mp))
        missing == Len(SelectSeq(merge_left(gl, mp), LAMBDA r : r.Pool = "NaN"))
    IN  [merged   |-> [i \in DOMAIN merged |->
                         [merged[i] EXCEPT
                            \* line 22: fillna(False).astype(bool)
                            !.IsUnallowable = IF @ = "NaN" THEN "False" ELSE @]],
         warnings |-> IF missing > 0 THEN <<"GL rows have no Account_Map match">>
                      ELSE <<>>]

(***************************************************************************)
(* model.compute_actual_aggregates, called as AnalystAgent.run calls it    *)
(* (entity = None), on a direct-cost table that has all of its columns.    *)
(***************************************************************************)
\* lines 48-49
gl_valid_rows(gl_mapped, config) ==
    SelectSeq(gl_mapped, LAMBDA r : /\ r.IsUnallowable # "True"
                                    /\ r.Pool \notin config.unallowable_pool_names)

\* The sum of the Amount of the rows that satisfy Test.
AmountOf(rows, Test(_)) ==
    LET sel == SelectSeq(rows, Test)
    IN  SumSeq([i \in DOMAIN sel |-> sel[i].Amount])

\* lines 62-68: group by (Period, Pool), pivot, fillna(0.0), sort_index().
pivot_pools(gl_valid) ==
    LET periods == {gl_valid[i].Period : i \in DOMAIN gl_valid}
        names   == {gl_valid[i].Pool : i \in DOMAIN gl_valid}
    IN  [index   |-> SortedSeq(periods),
         columns |-> names,
         data    |-> [p \in periods |->
                        [n \in names |->
                           AmountOf(gl_valid, LAMBDA r : r.Period = p /\ r.Pool = n)]]]

\* lines 81-83: direct.groupby("Period")[...].sum()
by_period_sums(direct) ==
    LET periods == {direct[i].Period : i \in DOMAIN direct}
        of(p)   == SelectSeq(direct, LAMBDA r : r.Period = p)
    IN  [index   |-> SortedSeq(periods),
         columns |-> DirectCols,
         data    |-> [p \in periods |->
                        [c \in DirectCols |->
                           SumSeq([i \in DOMAIN of(p) |-> of(p)[i].c[c]])]]]

\* model._bases_from_direct_costs
bases_from_direct_costs(by_period) ==
    [index   |-> by_period.index,
     columns |-> BaseKeys,
     data    |-> [p \in Range(by_period.index) |->
                    [k \in BaseKeys |->
                       CASE k = "DL"  -> by_period.data[p]["DirectLabor$"]
                         [] k = "DLH" -> by_period.data[p]["DirectLaborHrs"]
                         [] k = "TL"  -> by_period.data[p]["DirectLabor$"]
                         [] k = "TCI" -> SumSeq([i \in DOMAIN TCICols |->
                                                   by_period.data[p][TCICols[i]]])]]]

\* lines 92-103: the bases of the ledger accounts of config.base_account_map.
gl_bases_of(gl_mapped, pools, dc_bases, config) ==
    LET keys == DOMAIN config.base_account_map
        cols == keys \cup (IF "DL" \in keys THEN {"TL"} ELSE {}) \cup {"DLH"}
        agg(k, p) == AmountOf(gl_mapped, LAMBDA r : /\ r.Account \in config.base_account_map[k]
                                                   /\ r.Period = p)
    IN  [index   |-> pools.index,
         columns |-> cols,
         data    |-> [p \in Range(pools.index) |->
                        [k \in cols |->
                           IF k = "DLH" THEN fillna(Cell(dc_bases, p, "DLH"), Zero)
                           ELSE IF k \in keys THEN agg(k, p)
                           ELSE agg("DL", p)]]]

ColumnTotal(t, c) == SumOver([p \in Range(t.index) |-> t.data[p][c]], Range(t.index))

\* lines 108-119: the reconciliation warning of one base key.  0.05 is 1/20.
reconciliation_warning(gl_bases, dc_bases, key) ==
    LET gl_total == ColumnTotal(gl_bases, key)
        dc_total == ColumnTotal(dc_bases, key)
        diff     == RSub(gl_total, dc_total)
        pct_diff == RDiv(IF RLt(diff, Zero) THEN RSub(Zero, diff) ELSE diff, dc_total)
    IN  IF /\ key \in gl_bases.columns
           /\ key \in dc_bases.columns
           /\ RLt(Zero, dc_total)
           /\ RLt(<<1, 20>>, pct_diff)
        THEN <<IF key = "DL" THEN "GL-derived DL base differs from project ledger"
               ELSE "GL-derived TCI base differs from project ledger">>
        ELSE <<>>

compute_actual_aggregates(gl_mapped, direct_costs, config) ==
    LET pools    == pivot_pools(gl_valid_rows(gl_mapped, config))
        dc_bases == bases_from_direct_costs(by_period_sums(direct_costs))
        ledger   == DOMAIN config.base_account_map # {}
        gl_bases == gl_bases_of(gl_mapped, pools, dc_bases, config)
    IN  [pools |-> pools,
         bases |-> IF ledger THEN gl_bases ELSE dc_bases,
         direct_by_project |-> direct_costs,
         warnings |-> IF ledger
                      THEN reconciliation_warning(gl_bases, dc_bases, "DL")
                             \o reconciliation_warning(gl_bases, dc_bases, "TCI")
                      ELSE <<>>]

(***************************************************************************)
(* model.build_baseline_projection.                                        *)
(***************************************************************************)
\* model._month_range: pd.period_range(start=start, end=end, freq="M")
month_range(start, end) == [i \in 1 .. (end - start + 1) |-> start + (i - 1)]

\* A variant that keeps, of the labels asked for, the observed ones and those
\* after the last observed one.
reindex_observed(t, periods) ==
    LET keep == SelectSeq(periods, LAMBDA p :
                   HasPeriod(t, p) \/ \A q \in Range(t.index) : q < p)
    IN  [index   |-> keep,
         columns |-> t.columns,
         data    |-> [p \in Range(keep) |-> [c \in t.columns |-> Cell(t, p, c)]]]

\* DataFrame.reindex(periods): a label the table lacks becomes a row of NaN.
reindex(t, periods) ==
    [index   |-> periods,
     columns |-> t.columns,
     data    |-> [p \in Range(periods) |-> [c \in t.columns |-> Cell(t, p, c)]]]

\* A variant that takes the n rows before the last row.
tail_before_last(t, n) ==
    LET len == Len(t.index)
    IN  SubSeq(t.index, IF n >= len - 1 THEN 1 ELSE len - n, len - 1)

\* DataFrame.tail(n), n >= 1: the labels of the last n rows.
tail(t, n) ==
    LET len == Len(t.index)
    IN  SubSeq(t.index, IF n >= len THEN 1 ELSE len - n + 1, len)

\* Series.mean(): the NaN cells are skipped, the mean of no cell is NaN.
mean(values) ==
    LET present == SelectSeq(values, LAMBDA v : ~IsNaN(v))
    IN  IF present = <<>> THEN NaN ELSE RDiv(SumSeq(present), R(Len(present)))

\* lines 144-145: actual.tail(run_rate_months).mean()
tail_mean(t, n) ==
    [c \in t.columns |-> mean([i \in DOMAIN tail(t, n) |-> t.data[tail(t, n)[i]][c]])]

\* lines 147-151: every period after last_actual receives the run-rate row.
fill_forecast(t, rr, last_actual) ==
    [t EXCEPT !.data = [p \in Range(t.index) |->
                          IF p > last_actual THEN [c \in t.columns |-> rr[c]]
                          ELSE t.data[p]]]

\* DataFrame.fillna(0.0)
fillna_table(t) ==
    [t EXCEPT !.data = [p \in Range(t.index) |->
                          [c \in t.columns |-> fillna(t.data[p][c], Zero)]]]

\* line 163: bases[["DL", "TCI", "TL"]] raises KeyError for a table that lacks
\* one of the three columns.
lacks_checked_base(bases) == ~({"DL", "TCI", "TL"} \subseteq bases.columns)

\* line 163: (bases[["DL", "TCI", "TL"]] < 0).any().any()
negative_bases(bases) ==
    \E p \in Range(bases.index) : \E c \in {"DL", "TCI", "TL"} :
       RLt(Cell(bases, p, c), Zero)

\* The project labels in the order pandas sorts them.
ProjectOrder == <<"P1", "P2">>

\* model._project_direct_costs_run_rate
project_direct_costs_run_rate(direct, periods, last_actual, run_rate_months) ==
    LET recent == SelectSeq(direct, LAMBDA r :
                     r.Period > last_actual - (run_rate_months - 1))
        projs  == SelectSeq(ProjectOrder, LAMBDA j :
                     \E i \in DOMAIN recent : recent[i].Project = j)
        of(j)  == SelectSeq(recent, LAMBDA r : r.Project = j)
        rr(j)  == [x \in DirectCols |-> mean([i \in DOMAIN of(j) |-> of(j)[i].c[x]])]
        has(p, j) == \E i \in DOMAIN direct :
                        direct[i].Period = p /\ direct[i].Project = j
        row(p, j) == direct[CHOOSE i \in DOMAIN direct :
                              direct[i].Period = p /\ direct[i].Project = j]
        n == Len(projs)
    IN  [k \in 1 .. (Len(periods) * n) |->
           LET p == periods[((k - 1) \div n) + 1]
               j == projs[((k - 1) % n) + 1]
           IN  [Period |-> p, Project |-> j,
                c |-> [x \in DirectCols |->
                         IF has(p, j) THEN fillna(row(p, j).c[x], rr(j)[x])
                         ELSE rr(j)[x]]]]

\* A variant that also gives up on a single period.
no_pool_actuals_or_one(actual_pools) == Len(actual_pools.index) <= 1

\* line 135: len(actual_pools.index) == 0
no_pool_actuals(actual_pools) == Len(actual_pools.index) = 0

\* lines 137-176, for a pool table with at least one period.
build_baseline_projection(actual_pools, actual_bases, direct_by_project, forecast_months, run_rate_months) ==
    LET last_actual == actual_pools.index[Len(actual_pools.index)]
        periods  == month_range(actual_pools.index[1], last_actual + forecast_months)
        rr_pools == tail_mean(actual_pools, run_rate_months)
        rr_bases == tail_mean(actual_bases, run_rate_months)
        pools    == fill_forecast(reindex(actual_pools, periods), rr_pools, last_actual)
        bases    == fill_forecast(reindex(actual_bases, periods), rr_bases, last_actual)
    IN  [pools |-> fillna_table(pools),
         bases |-> fillna_table(bases),
         direct_by_project |->
            project_direct_costs_run_rate(direct_by_project, periods, last_actual,
                                          run_rate_months),
         assumptions |-> [forecast_months |-> forecast_months,
                          run_rate_months |-> run_rate_months,
                          method |-> "rolling_mean_run_rate",
                          run_rate_pool_means |-> rr_pools,
                          run_rate_base_means |-> rr_bases,
                          last_actual_period |-> last_actual],
         warnings |-> IF negative_bases(bases)
                      THEN <<"Negative base values detected; rates may be distorted.">>
                      ELSE <<>>]

(***************************************************************************)
(* model.apply_scenario_events.  An event table is [columns, rows]; a row  *)
(* is [Scenario, EffectivePeriod, Project, delta, pool]: delta[x] is the   *)
(* cell of the delta column of the direct-cost column x, pool[col] the     *)
(* cell of the pool delta column col.  A blank Scenario cell is "NaN".     *)
(***************************************************************************)
\* The DeltaPool columns of the model's event tables, in column order.
DeltaPoolColumns == <<"DeltaPoolFringe", "DeltaPoolGA", "DeltaPoolG&A">>

\* lines 241-244: col[len("DeltaPool"):], and "GA" read as "G&A".
pool_name_of(col) ==
    CASE col = "DeltaPoolFringe" -> "Fringe"
      [] col = "DeltaPoolGA"     -> "G&A"
      [] col = "DeltaPoolG&A"    -> "G&A"

\* A variant that keeps every row, whatever its scenario.
matching_events_unfiltered(events, scenario) == events.rows

\* A variant that also keeps the rows of the scenario "Upside".
matching_events_and_upside(events, scenario) ==
    IF "Scenario" \in events.columns
    THEN SelectSeq(events.rows, LAMBDA e :
            (IF e.Scenario = "NaN" THEN "Base" ELSE e.Scenario) \in {scenario, "Upside"})
    ELSE events.rows

\* lines 208-209: events[events["Scenario"].fillna("Base").astype(str) == scenario]
matching_events(events, scenario) ==
    IF "Scenario" \in events.columns
    THEN SelectSeq(events.rows, LAMBDA e :
            (IF e.Scenario = "NaN" THEN "Base" ELSE e.Scenario) = scenario)
    ELSE events.rows

\* A variant that adds the amount in the first applicable period only.
add_pool_delta_impulse(pools, pool_name, applicable, amount) ==
    LET cols == pools.columns \cup {pool_name}
        old(p, c) == IF c \in pools.columns THEN pools.data[p][c] ELSE Zero
    IN  [index   |-> pools.index,
         columns |-> cols,
         data    |-> [p \in Range(pools.index) |->
                        [c \in cols |->
                           IF c = pool_name /\ p \in applicable
                              /\ \A q \in applicable : p <= q
                           THEN RAdd(old(p, c), amount) ELSE old(p, c)]]]

\* lines 255-257 for one delta column.
add_pool_delta(pools, pool_name, applicable, amount) ==
    LET cols == pools.columns \cup {pool_name}
        old(p, c) == IF c \in pools.columns THEN pools.data[p][c] ELSE Zero
    IN  [index   |-> pools.index,
         columns |-> cols,
         data    |-> [p \in Range(pools.index) |->
                        [c \in cols |->
                           IF c = pool_name /\ p \in applicable
                           THEN RAdd(old(p, c), amount) ELSE old(p, c)]]]

\* lines 254-257: the delta columns of one event, in column order.
RECURSIVE add_pool_deltas(_, _, _, _)
add_pool_deltas(pools, cols, applicable, event) ==
    IF cols = <<>> THEN pools
    ELSE add_pool_deltas(add_pool_delta(pools, pool_name_of(Head(cols)), applicable,
                                        fillna(event.pool[Head(cols)], Zero)),
                         Tail(cols), applicable, event)

\* A variant that puts the delta in the place of the amount.
add_direct_deltas_overwrite(direct, event) ==
    IF event.Project = "" THEN direct
    ELSE [i \in DOMAIN direct |->
            IF direct[i].Project = event.Project
               /\ direct[i].Period >= event.EffectivePeriod
            THEN [direct[i] EXCEPT
                    !.c = [x \in DirectCols |-> fillna(event.delta[x], Zero)]]
            ELSE direct[i]]

\* lines 259-271: the direct-cost deltas of one event.
add_direct_deltas(direct, event) ==
    IF event.Project = "" THEN direct
    ELSE [i \in DOMAIN direct |->
            IF direct[i].Project = event.Project
               /\ direct[i].Period >= event.EffectivePeriod
            THEN [direct[i] EXCEPT
                    !.c = [x \in DirectCols |->
                             RAdd(fillna(@[x], Zero), fillna(event.delta[x], Zero))]]
            ELSE direct[i]]

\* lines 248-271: the loop over the events, in row order.
RECURSIVE apply_events(_, _, _, _)
apply_events(pools, direct, cols, rows) ==
    IF rows = <<>> THEN [pools |-> pools, direct |-> direct]
    ELSE LET event == Head(rows)
             applicable == {p \in Range(pools.index) : p >= event.EffectivePeriod}
         IN  IF applicable = {}
             THEN apply_events(pools, direct, cols, Tail(rows))
             ELSE apply_events(add_pool_deltas(pools, cols, applicable, event),
                               add_direct_deltas(direct, event), cols, Tail(rows))

\* A variant that puts the new direct-cost aggregates in the place of the bases.
bases_by_delta_replaced(bases, orig_direct, new_direct) ==
    LET new  == by_period_sums(new_direct)
        d(p, x) == new.data[p][x]
        total(p, k) ==
            CASE k = "DL"  -> d(p, "DirectLabor$")
              [] k = "TL"  -> d(p, "DirectLabor$")
              [] k = "DLH" -> d(p, "DirectLaborHrs")
              [] k = "TCI" -> RAdd(RAdd(RAdd(d(p, "DirectLabor$"), d(p, "Subk")),
                                        d(p, "ODC")), d(p, "Travel"))
              [] OTHER     -> bases.data[p][k]
    IN  [bases EXCEPT !.data =
           [p \in Range(bases.index) |->
              [k \in bases.columns |->
                 IF HasPeriod(new, p) THEN total(p, k) ELSE bases.data[p][k]]]]

\* lines 279-304: the deltas of the direct-cost aggregates added to the bases.
bases_by_delta(bases, orig_direct, new_direct) ==
    LET orig == by_period_sums(orig_direct)
        new  == by_period_sums(new_direct)
        d(p, x) == RSub(new.data[p][x], orig.data[p][x])
        delta(p, k) ==
            CASE k = "DL"  -> d(p, "DirectLabor$")
              [] k = "TL"  -> d(p, "DirectLabor$")
              [] k = "DLH" -> d(p, "DirectLaborHrs")
              [] k = "TCI" -> RAdd(RAdd(RAdd(d(p, "DirectLabor$"), d(p, "Subk")),
                                        d(p, "ODC")), d(p, "Travel"))
              [] OTHER     -> Zero
    IN  [bases EXCEPT !.data =
           [p \in Range(bases.index) |->
              [k \in bases.columns |->
                 IF HasPeriod(new, p) /\ HasPeriod(orig, p)
                 THEN RAdd(bases.data[p][k], delta(p, k))
                 ELSE bases.data[p][k]]]]

\* A variant whose TCI is the direct labor alone.
bases_recomputed_labor_tci(bases, new_direct) ==
    LET by_period == by_period_sums(new_direct)
        hit  == \E p \in Range(bases.index) : HasPeriod(by_period, p)
        cols == bases.columns \cup (IF hit THEN BaseKeys ELSE {})
    IN  [index   |-> bases.index,
         columns |-> cols,
         data    |-> [p \in Range(bases.index) |->
                        [k \in cols |->
                           IF HasPeriod(by_period, p) /\ k \in BaseKeys
                           THEN (IF k = "DLH"
                                 THEN by_period.data[p]["DirectLaborHrs"]
                                 ELSE by_period.data[p]["DirectLabor$"])
                           ELSE Cell(bases, p, k)]]]

\* lines 307-318: the bases recomputed from the direct-cost rows.
bases_recomputed(bases, new_direct) ==
    LET by_period == bases_from_direct_costs(by_period_sums(new_direct))
        hit  == \E p \in Range(bases.index) : HasPeriod(by_period, p)
        cols == bases.columns \cup (IF hit THEN BaseKeys ELSE {})
    IN  [index   |-> bases.index,
         columns |-> cols,
         data    |-> [p \in Range(bases.index) |->
                        [k \in cols |->
                           IF HasPeriod(by_period, p) /\ k \in BaseKeys
                           THEN by_period.data[p][k]
                           ELSE Cell(bases, p, k)]]]

\* lines 320-322
stamp(assumptions, scenario, n) ==
    [k \in DOMAIN assumptions \cup {"scenario", "events_applied"} |->
       CASE k = "scenario"       -> scenario
         [] k = "events_applied" -> n
         [] OTHER                -> assumptions[k]]

\* apply_scenario_events(projection, scenario_events, scenario, config);
\* use_gl_bases is line 274, false when no config is passed.
apply_scenario_events(projection, scenario_events, scenario, use_gl_bases) ==
    LET events == matching_events(scenario_events, scenario)
        cols   == SelectSeq(DeltaPoolColumns, LAMBDA c : c \in scenario_events.columns)
        after  == apply_events(projection.pools, projection.direct_by_project,
                               cols, events)
        bases  == IF use_gl_bases
                  THEN bases_by_delta(projection.bases, projection.direct_by_project,
                                      after.direct)
                  ELSE bases_recomputed(projection.bases, after.direct)
    IN  IF scenario_events.rows = <<>> \/ "EffectivePeriod" \notin scenario_events.columns
        THEN projection
        ELSE IF events = <<>>
        THEN projection
        ELSE [pools |-> fillna_table(after.pools),
              bases |-> fillna_table(bases),
              direct_by_project |-> after.direct,
              assumptions |-> stamp(projection.assumptions, scenario, Len(events)),
              warnings |-> projection.warnings]

(***************************************************************************)
(* State.  The engine is a pipeline of pure functions; the state is the    *)
(* table each stage has produced so far and pc, the stage reached.         *)
(***************************************************************************)
VARIABLES pc, config, gl_actuals, account_map, direct_costs, gl_mapped, actual,
          params, baseline, scenario_events, projection, result, results, db_rows

vars == <<pc, config, gl_actuals, account_map, direct_costs, gl_mapped, actual,
          params, baseline, scenario_events, projection, result, results,
          db_rows>>

\* The value of a variable that the stage reached has not produced yet.
None == <<>>

(***************************************************************************)
(* Inputs of the cascade: rate configurations.                             *)
(***************************************************************************)
RateDefinition(name, pool, base, cascade_order) ==
    [name |-> name, pool |-> pool, base |-> base, cascade_order |-> cascade_order]

\* The rate structure of tests/test_sub_pools.py and tests/test_model_cascade.py:
\* Fringe (two sub-pools) on TL, Overhead on DL, G&A on TCI.
Tiers == 0 .. MaxTier

TieredRates(tf, to, tg) ==
    <<RateDefinition("Fringe", <<"Fringe1", "Fringe2">>, "TL", tf),
      RateDefinition("Overhead", <<"Overhead">>, "DL", to),
      RateDefinition("G&A", <<"G&A">>, "TCI", tg)>>

\* Every assignment of tiers to the three rates.
CascadeConfigs ==
    {[rates |-> TieredRates(tf, to, tg), unallowable_pool_names |-> {"Unallowable"},
      base_account_map |-> <<>>] :
       tf \in Tiers, to \in Tiers, tg \in Tiers}

(***************************************************************************)
(* Inputs of the cascade: projections of two periods, December and the     *)
(* January after it.  The second period holds the amounts of the first     *)
(* raised by one, so that the two periods differ in every cell.            *)
(***************************************************************************)
FirstPeriod == PeriodOf(0, 12)

CascadePeriods == <<FirstPeriod, FirstPeriod + 1>>

PoolNames == {"Fringe1", "Fringe2", "Overhead", "G&A"}

Amounts == 0 .. MaxAmount

Shift(p) == p - FirstPeriod

DirectRow(period, project, dl, hrs, subk, odc, travel) ==
    [Period |-> period, Project |-> project,
     c |-> [x \in DirectCols |->
              CASE x = "DirectLabor$"   -> R(dl)
                [] x = "DirectLaborHrs" -> R(hrs)
                [] x = "Subk"           -> R(subk)
                [] x = "ODC"            -> R(odc)
                [] x = "Travel"         -> R(travel)]]

CascadeProjection(f, g, dl, pdl) ==
    [pools |-> [index |-> CascadePeriods, columns |-> PoolNames,
                data |-> [p \in Range(CascadePeriods) |->
                            [c \in PoolNames |->
                               CASE c = "Fringe1"  -> R(f + Shift(p))
                                 [] c = "Fringe2"  -> R(1)
                                 [] c = "Overhead" -> R(1 + Shift(p))
                                 [] c = "G&A"      -> R(g + Shift(p))]]],
     bases |-> [index |-> CascadePeriods, columns |-> BaseKeys,
                data |-> [p \in Range(CascadePeriods) |->
                            [c \in BaseKeys |->
                               CASE c = "DL"  -> R(dl + Shift(p))
                                 [] c = "TL"  -> R(dl + Shift(p))
                                 [] c = "DLH" -> R(2)
                                 [] c = "TCI" -> R(dl + 2 + Shift(p))]]],
     direct_by_project |->
        <<DirectRow(FirstPeriod, "P1", pdl, 1, 1, 0, 0),
          DirectRow(FirstPeriod, "P2", 1, 1, 1, 1, 0),
          DirectRow(FirstPeriod + 1, "P1", pdl + 1, 1, 1, 0, 1),
          DirectRow(FirstPeriod + 1, "P1", 1, 1, 1, 0, 0)>>,
     assumptions |-> [scenario |-> "", events_applied |-> 0],
     warnings |-> <<>>]

CascadeProjections ==
    {CascadeProjection(f, g, dl, pdl) :
       f \in Amounts, g \in Amounts, dl \in -1 .. MaxAmount, pdl \in {-1, 2}}

(***************************************************************************)
(* The cascade on its own: compute_rates_and_impacts applied to a          *)
(* projection, as tests/test_model_cascade.py calls it.                    *)
(***************************************************************************)
InitCascade ==
    /\ pc = "projected"
    /\ config \in CascadeConfigs
    /\ projection \in CascadeProjections
    /\ params \in {[fy_start |-> NoPeriod], [fy_start |-> FirstPeriod]}
    /\ gl_actuals = None
    /\ account_map = None
    /\ direct_costs = None
    /\ gl_mapped = None
    /\ actual = None
    /\ baseline = None
    /\ scenario_events = None
    /\ result = None
    /\ results = None
    /\ db_rows = None

ComputeRatesAndImpacts ==
    /\ pc = "projected"
    /\ result' = compute_rates_and_impacts(projection, config, params.fy_start)
    /\ pc' = "done"
    /\ UNCHANGED <<config, gl_actuals, account_map, direct_costs, gl_mapped, actual,
                   params, baseline, scenario_events, projection,
                   results, db_rows>>

NextCascade == ComputeRatesAndImpacts

SpecCascade == InitCascade /\ [][NextCascade]_vars



(***************************************************************************)
(* Properties of the cascade.                                              *)
(***************************************************************************)
Computed == pc = "done" /\ result.status = "ok"

ImpactKeys == DOMAIN result.impacts

PeriodOfKey(k) == k[1]

\* The raw base column of a rate's base key, summed over the project rows
\* of one (Period, Project).
RawBase(k, base) ==
    LET rows == SelectSeq(projection.direct_by_project,
                          LAMBDA r : <<r.Period, r.Project>> = k)
    IN  SumSeq([i \in DOMAIN rows |-> base_column(rows[i], base)])

RateDefs == Range(config.rates)

RateOf(rd, k) == result.rates.data[PeriodOfKey(k)][rd.name]

LowerTierDollars(rd, k) ==
    LET lower == {s \in RateDefs : s.cascade_order < rd.cascade_order}
    IN  SumOver([s \in lower |-> result.impacts[k].dollar[s.name]], lower)

\* C1: for every rate definition R at tier T, every period and every project
\* row, R$ = (the raw base column of R's base key + the sum of the dollar
\* columns of every rate whose tier is strictly less than T) * R's rate of the
\* period; at the lowest tier the sum is empty.
C1_CascadeAppliedBase ==
    Computed =>
      \A k \in ImpactKeys : \A rd \in RateDefs :
        result.impacts[k].dollar[rd.name] =
          RMul(RAdd(RawBase(k, rd.base), LowerTierDollars(rd, k)), RateOf(rd, k))

\* A rate at tier 2 above non-zero dollar impacts at tier 0 and at tier 1.
C1_Witness ==
    /\ Computed
    /\ \E k \in ImpactKeys : \E r0 \in RateDefs, r1 \in RateDefs, r2 \in RateDefs :
         /\ r0.cascade_order = 0 /\ r1.cascade_order = 1 /\ r2.cascade_order = 2
         /\ result.impacts[k].dollar[r0.name][1] # 0
         /\ result.impacts[k].dollar[r1.name][1] # 0
         /\ result.impacts[k].dollar[r2.name][1] # 0

\* The configuration with the i-th and j-th declared rates exchanged.
SwapRates(cfg, i, j) ==
    [cfg EXCEPT !.rates = [x \in DOMAIN cfg.rates |->
                             IF x = i THEN cfg.rates[j]
                             ELSE IF x = j THEN cfg.rates[i] ELSE cfg.rates[x]]]

SameTierPairs ==
    {ij \in (DOMAIN config.rates) \X (DOMAIN config.rates) :
       /\ ij[1] < ij[2]
       /\ config.rates[ij[1]].cascade_order = config.rates[ij[2]].cascade_order}

\* C2: two rate definitions of one tier never enter each other's applied
\* base: exchanging their places in the declaration leaves every dollar column
\* and LoadedCost$ as they were.
C2_SameTierIndependent ==
    Computed =>
      \A ij \in SameTierPairs :
        compute_rates_and_impacts(projection, SwapRates(config, ij[1], ij[2]),
                                  params.fy_start).impacts = result.impacts

\* Two rates share a tier above 0 and both have a non-zero dollar impact.
C2_Witness ==
    /\ Computed
    /\ \E ij \in SameTierPairs : \E k \in ImpactKeys :
         /\ config.rates[ij[1]].cascade_order > 0
         /\ result.impacts[k].dollar[config.rates[ij[1]].name][1] # 0
         /\ result.impacts[k].dollar[config.rates[ij[2]].name][1] # 0

\* C3: LoadedCost$ of a project row = DirectLabor$ + Subk + ODC + Travel + the
\* sum of the dollar columns, one per rate definition.
C3_LoadedCost ==
    Computed =>
      \A k \in ImpactKeys :
        result.impacts[k].LoadedCost =
          RAdd(SumOver(result.impacts[k].c, {"DirectLabor$", "Subk", "ODC", "Travel"}),
               SumOver([rd \in RateDefs |-> result.impacts[k].dollar[rd.name]], RateDefs))

\* A row with subcontract cost, other direct cost and a non-zero dollar impact.
C3_Witness ==
    /\ Computed
    /\ \E k \in ImpactKeys :
         /\ result.impacts[k].c["Subk"][1] # 0
         /\ result.impacts[k].c["ODC"][1] # 0
         /\ \E rd \in RateDefs : result.impacts[k].dollar[rd.name][1] # 0

\* The same pool/base pairs with every rate at tier 0.
Flat(cfg) ==
    [cfg EXCEPT !.rates = [x \in DOMAIN cfg.rates |->
                             [cfg.rates[x] EXCEPT !.cascade_order = 0]]]

FlatResult == compute_rates_and_impacts(projection, Flat(config), params.fy_start)

DistinctTiers ==
    \A i \in DOMAIN config.rates, j \in DOMAIN config.rates :
      i # j => config.rates[i].cascade_order # config.rates[j].cascade_order

NonNegative(t) ==
    \A p \in Range(t.index) : \A c \in t.columns : RLeq(Zero, t.data[p][c])

DirectNonNegative ==
    \A i \in DOMAIN projection.direct_by_project :
      \A c \in DirectCols : RLeq(Zero, projection.direct_by_project[i].c[c])

CascadedAtLeastFlat ==
    \A k \in ImpactKeys :
      RLeq(FlatResult.impacts[k].LoadedCost, result.impacts[k].LoadedCost)

\* C4 as stated: with distinct tiers and no negative pool value, LoadedCost$ of
\* every project row is at least its LoadedCost$ under the flat configuration.
C4_AsStated ==
    (Computed /\ DistinctTiers /\ NonNegative(projection.pools)) => CascadedAtLeastFlat

\* C4 amended: the same, when also no base total and no direct-cost amount of
\* the project rows is negative.
C4_CascadedAtLeastFlat ==
    (/\ Computed
     /\ DistinctTiers
     /\ NonNegative(projection.pools)
     /\ NonNegative(projection.bases)
     /\ DirectNonNegative) => CascadedAtLeastFlat

\* Non-negative inputs, distinct tiers, and a row the cascade loads strictly more.
C4_Witness ==
    /\ Computed
    /\ DistinctTiers
    /\ NonNegative(projection.pools)
    /\ NonNegative(projection.bases)
    /\ DirectNonNegative
    /\ \E k \in ImpactKeys :
         RLt(FlatResult.impacts[k].LoadedCost, result.impacts[k].LoadedCost)

\* C5: the rate of every rate definition in every period is the same with
\* cascading tiers as with every rate at tier 0.
C5_RatesTierInvariant ==
    Computed => result.rates = compute_rates(projection, Flat(config))

\* A rate above tier 0 with a non-zero value.
C5_Witness ==
    /\ Computed
    /\ \E rd \in RateDefs : \E p \in Range(result.rates.index) :
         rd.cascade_order > 0 /\ result.rates.data[p][rd.name][1] # 0

CumBase(rd, p) ==
    LET w == ytd_window(projection.pools, p, Month(params.fy_start))
    IN  SumOver([q \in w |-> Cell(projection.bases, q, rd.base)], w)

CumPool(rd, p) ==
    LET w == ytd_window(projection.pools, p, Month(params.fy_start))
    IN  SumOver([q \in w |-> pool_total(projection.pools, rd, q)], w)

\* C6: where the base total of a rate is 0 in a period the monthly rate is
\* exactly 0, and where the cumulative base of the year-to-date window is 0
\* the year-to-date rate is exactly 0; neither is an error or NaN.
C6_ZeroBaseZeroRate ==
    pc = "done" =>
      /\ result.status = "ok"
      /\ \A rd \in RateDefs : \A p \in Range(projection.pools.index) :
           /\ ~IsNaN(result.rates.data[p][rd.name])
           /\ projection.bases.data[p][rd.base] = Zero
                => result.rates.data[p][rd.name] = Zero
           /\ result.has_ytd =>
                /\ ~IsNaN(result.ytd_rates.data[p][rd.name])
                /\ CumBase(rd, p) = Zero => result.ytd_rates.data[p][rd.name] = Zero

\* A zero base under a non-zero pool total, monthly and cumulative.
C6_Witness ==
    /\ Computed
    /\ result.has_ytd
    /\ \E rd \in RateDefs : \E p \in Range(projection.pools.index) :
         /\ projection.bases.data[p][rd.base] = Zero
         /\ pool_total(projection.pools, rd, p)[1] # 0
    /\ \E rd \in RateDefs : \E p \in Range(projection.pools.index) :
         /\ CumBase(rd, p) = Zero
         /\ CumPool(rd, p)[1] # 0
(***************************************************************************)
(* The ledger stages: map_accounts_to_pools, then                          *)
(* compute_actual_aggregates, as AnalystAgent.run calls them.              *)
(***************************************************************************)
LedgerRow(period, account, amount) ==
    [Period |-> period, Account |-> account, Amount |-> R(amount)]

MapRow(account, pool, flag) ==
    [Account |-> account, Pool |-> pool, IsUnallowable |-> flag]

\* The cells of the ledger: an account in a period.  Account 7000 has no row
\* in the account map; account 5100 is a direct-labor account.
LedgerCells ==
    <<<<FirstPeriod, "6000">>, <<FirstPeriod + 1, "6000">>, <<FirstPeriod, "6100">>,
      <<FirstPeriod, "6999">>, <<FirstPeriod, "7000">>, <<FirstPeriod, "5100">>>>

\* A ledger: each cell is absent (amount 0 here) or a row with an amount.
RECURSIVE LedgerOf(_, _)
LedgerOf(amounts, k) ==
    IF k > Len(LedgerCells) THEN <<>>
    ELSE (IF amounts[k] = 0 THEN <<>>
          ELSE <<LedgerRow(LedgerCells[k][1], LedgerCells[k][2], amounts[k])>>)
         \o LedgerOf(amounts, k + 1)

Ledgers == {LedgerOf(a, 1) : a \in [DOMAIN LedgerCells -> 0 .. MaxAmount]}

\* Account maps: account 6100 feeds either pool, flagged, unflagged or blank;
\* account 6999 feeds the pool the configuration names unallowable.
AccountMaps ==
    {<<MapRow("6000", "Fringe", "False"), MapRow("6100", pool, flag),
       MapRow("6999", "Unallowable", "False"), MapRow("5100", "Direct", "False")>> :
       pool \in {"Fringe", "Overhead"}, flag \in {"False", "True", "NaN"}}

LedgerRates ==
    <<RateDefinition("Fringe", <<"Fringe">>, "TL", 0),
      RateDefinition("Overhead", <<"Overhead">>, "DL", 1)>>

\* Legacy mode, and ledger-primary mode with the direct-labor account as the
\* DL and the TCI base.
LedgerConfigs ==
    {[rates |-> LedgerRates, unallowable_pool_names |-> {"Unallowable"},
      base_account_map |-> m] :
       m \in {<<>>, [k \in {"DL", "TCI"} |-> {"5100"}]}}

LedgerDirectCosts ==
    <<DirectRow(FirstPeriod, "P1", 2, 1, 1, 0, 0),
      DirectRow(FirstPeriod + 1, "P1", 1, 1, 0, 0, 0)>>

InitLedger ==
    /\ pc = "loaded"
    /\ gl_actuals \in Ledgers
    /\ account_map \in AccountMaps
    /\ direct_costs = LedgerDirectCosts
    /\ config \in LedgerConfigs
    /\ gl_mapped = None
    /\ actual = None
    /\ params = None
    /\ baseline = None
    /\ scenario_events = None
    /\ projection = None
    /\ result = None
    /\ results = None
    /\ db_rows = None

MapAccountsToPools ==
    /\ pc = "loaded"
    /\ gl_mapped' = map_accounts_to_pools(gl_actuals, account_map)
    /\ pc' = "mapped"
    /\ UNCHANGED <<config, gl_actuals, account_map, direct_costs, actual, params,
                   baseline, scenario_events, projection, result,
                   results, db_rows>>

ComputeActualAggregates ==
    /\ pc = "mapped"
    /\ actual' = compute_actual_aggregates(gl_mapped.merged, direct_costs, config)
    /\ pc' = "aggregated"
    /\ UNCHANGED <<config, gl_actuals, account_map, direct_costs, gl_mapped, params,
                   baseline, scenario_events, projection, result,
                   results, db_rows>>

NextLedger == MapAccountsToPools \/ ComputeActualAggregates

SpecLedger == InitLedger /\ [][NextLedger]_vars

(***************************************************************************)
(* Properties of the ledger stages.                                        *)
(***************************************************************************)
HasMapEntry(r) == \E i \in DOMAIN account_map : account_map[i].Account = r.Account

MapEntry(r) == account_map[CHOOSE i \in DOMAIN account_map :
                             account_map[i].Account = r.Account]

\* A ledger row that is mapped, not flagged unallowable, and not of a pool the
\* configuration names unallowable.
Remaining(r) ==
    /\ HasMapEntry(r)
    /\ MapEntry(r).IsUnallowable # "True"
    /\ MapEntry(r).Pool \notin config.unallowable_pool_names

\* C9: a ledger row that is unmapped, flagged unallowable or of an unallowable
\* pool adds to no pool total: every pool total is the sum of the remaining
\* rows of its period and pool, and no "Unmapped" or unallowable column appears.
C9_PoolTotalsOfRemainingRows ==
    pc = "aggregated" =>
      /\ "Unmapped" \notin actual.pools.columns
      /\ actual.pools.columns \cap config.unallowable_pool_names = {}
      /\ \A p \in Range(actual.pools.index) : \A n \in actual.pools.columns :
           actual.pools.data[p][n] =
             AmountOf(gl_actuals, LAMBDA r : /\ r.Period = p
                                             /\ Remaining(r)
                                             /\ MapEntry(r).Pool = n)

(***************************************************************************)
(* The forecast pipeline of AnalystAgent.run from the mapped ledger on:    *)
(* compute_actual_aggregates, build_baseline_projection,                   *)
(* apply_scenario_events, compute_rates_and_impacts.                       *)
(***************************************************************************)
MappedRow(period, account, pool, amount) ==
    [Period |-> period, Account |-> account, Amount |-> R(amount),
     Pool |-> pool, IsUnallowable |-> "False"]

\* The mapped ledger whose months are FirstPeriod + k for the offsets k of
\* observed: a Fringe row and a direct-labor row in every month, an Overhead
\* row in the first one, and last a row of the unallowable pool.  The amounts
\* differ from month to month.
RECURSIVE ObservedLedger(_, _)
ObservedLedger(observed, first) ==
    IF observed = <<>> THEN <<MappedRow(FirstPeriod, "6999", "Unallowable", 1)>>
    ELSE LET k == Head(observed)
         IN  <<MappedRow(FirstPeriod + k, "6000", "Fringe", (k + 1) * (k + 1)),
               MappedRow(FirstPeriod + k, "5100", "Direct", 3 + k)>>
             \o (IF first THEN <<MappedRow(FirstPeriod + k, "6100", "Overhead", 2)>>
                 ELSE <<>>)
             \o ObservedLedger(Tail(observed), FALSE)

\* The observed months of the ledger: none, contiguous, and with gaps.
ObservedMonths ==
    {<<>>, <<0>>, <<2>>, <<0, 1>>, <<1, 2>>, <<0, 2>>, <<0, 1, 2>>, <<0, 3>>,
     <<0, 1, 2, 3>>}

\* The project ledger: project P1 in the months of observed, P2 in the first.
RECURSIVE ProjectRows(_)
ProjectRows(observed) ==
    IF observed = <<>> THEN <<>>
    ELSE <<DirectRow(FirstPeriod + Head(observed), "P1", 2 + Head(observed), 1, 1, 0, 0)>>
         \o ProjectRows(Tail(observed))

BaselineDirectCosts ==
    {ProjectRows(m) \o <<DirectRow(FirstPeriod, "P2", 1, 1, 0, 1, 0)>> :
       m \in {<<0, 1, 2>>, <<0, 2>>, <<0, 1, 2, 3>>}}

EventColumns ==
    {"Scenario", "EffectivePeriod", "Type", "Project", "DeltaPoolFringe", "DeltaPoolGA"}

Event(scenario, effective, project) ==
    [Scenario |-> scenario, EffectivePeriod |-> effective, Project |-> project,
     delta |-> [x \in DirectCols |->
                  CASE x = "DirectLabor$"   -> R(2)
                    [] x = "DirectLaborHrs" -> R(1)
                    [] x = "Subk"           -> R(1)
                    [] OTHER                -> Zero],
     pool |-> [c \in {"DeltaPoolFringe", "DeltaPoolGA"} |->
                 IF c = "DeltaPoolFringe" THEN R(3) ELSE R(1)]]

\* An event of other amounts, some of them negative.
LoseEvent(scenario, effective, project) ==
    [Scenario |-> scenario, EffectivePeriod |-> effective, Project |-> project,
     delta |-> [x \in DirectCols |->
                  CASE x = "DirectLabor$"   -> R(-1)
                    [] x = "DirectLaborHrs" -> R(2)
                    [] x = "Subk"           -> Zero
                    [] OTHER                -> R(1)],
     pool |-> [c \in {"DeltaPoolFringe", "DeltaPoolGA"} |->
                 IF c = "DeltaPoolFringe" THEN R(-2) ELSE R(2)]]

\* Event tables: empty, of one event, of two events of two scenarios, of two
\* events of one scenario, period and project, and of three events.
\* An effective period of FirstPeriod + 9 lies after every projected period.
EventTables ==
    {[columns |-> EventColumns, rows |-> rows] :
       rows \in {<<>>} \cup {<<Event("Upside", FirstPeriod + 1, "P1"),
                               Event("Other", FirstPeriod, "")>>}
                 \cup {<<Event("Base", FirstPeriod + 1, "P1"),
                         LoseEvent("Base", FirstPeriod + 1, "P1")>>}
                 \cup {<<LoseEvent("Upside", FirstPeriod + 2, ""),
                         Event("Upside", FirstPeriod + 1, "P1"),
                         Event("NaN", FirstPeriod, "P2")>>}
                 \cup {<<Event(s, ep[1], ep[2])>> :
                         s \in {"Base", "Upside", "NaN"},
                         ep \in {<<FirstPeriod + 1, "P1">>, <<FirstPeriod + 1, "">>,
                                 <<FirstPeriod + 9, "P1">>}}}

\* The calls of the pipeline: legacy configuration, and ledger-primary
\* configuration with and without the configuration handed to
\* apply_scenario_events (AnalystAgent.run does not hand it over).
Calls ==
    {<<cfg, with>> \in LedgerConfigs \X BOOLEAN :
       with => DOMAIN cfg.base_account_map # {}}

InitBaseline ==
    /\ pc = "mapped"
    /\ \E call \in Calls, fm \in 1 .. MaxForecast, rr \in 1 .. MaxRunRate,
          s \in {"Base", "Upside"} :
          /\ config = call[1]
          /\ params = [forecast_months |-> fm, run_rate_months |-> rr,
                       fy_start |-> NoPeriod, scenario |-> s, with_config |-> call[2]]
    /\ \E m \in ObservedMonths :
          gl_mapped = [merged |-> ObservedLedger(m, TRUE), warnings |-> <<>>]
    /\ direct_costs \in BaselineDirectCosts
    /\ scenario_events \in EventTables
    /\ gl_actuals = None
    /\ account_map = None
    /\ actual = None
    /\ baseline = None
    /\ projection = None
    /\ result = None
    /\ results = None
    /\ db_rows = None

BuildBaselineProjection ==
    /\ pc = "aggregated"
    /\ IF no_pool_actuals(actual.pools)
       THEN \* line 136: raise ValueError
            /\ pc' = "failed"
            /\ UNCHANGED baseline
       ELSE IF lacks_checked_base(actual.bases)
       THEN \* line 163: KeyError
            /\ pc' = "failed"
            /\ UNCHANGED baseline
       ELSE /\ pc' = "baseline"
            /\ baseline' = build_baseline_projection(
                              actual.pools, actual.bases, actual.direct_by_project,
                              params.forecast_months, params.run_rate_months)
    /\ UNCHANGED <<config, gl_actuals, account_map, direct_costs, gl_mapped, actual,
                   params, scenario_events, projection, result,
                   results, db_rows>>

ApplyScenarioEvents ==
    /\ pc = "baseline"
    /\ projection' = apply_scenario_events(
                        baseline, scenario_events, params.scenario,
                        params.with_config /\ DOMAIN config.base_account_map # {})
    /\ pc' = "projected"
    /\ UNCHANGED <<config, gl_actuals, account_map, direct_costs, gl_mapped, actual,
                   params, baseline, scenario_events, result,
                   results, db_rows>>

NextBaseline ==
    \/ ComputeActualAggregates
    \/ BuildBaselineProjection
    \/ ApplyScenarioEvents
    \/ ComputeRatesAndImpacts

SpecBaseline == InitBaseline /\ [][NextBaseline]_vars

(***************************************************************************)
(* Properties of the forecast pipeline.                                    *)
(***************************************************************************)
BaselineBuilt == pc \in {"baseline", "projected", "done"}

Projected == pc \in {"projected", "done"}

\* last_actual and the earliest actual period, model.py lines 137 and 139.
LastActual == actual.pools.index[Len(actual.pools.index)]

EarliestActual == actual.pools.index[1]

\* The run_rate_months months that end at the last actual period.
TrailingMonths ==
    {p \in (LastActual - params.run_rate_months + 1) .. LastActual : TRUE}

\* The mean of column c of an actual table over its rows of the trailing months.
TrailingMean(t, c) ==
    LET rows == SelectSeq(t.index, LAMBDA p : p \in TrailingMonths)
    IN  fillna(mean([i \in DOMAIN rows |-> t.data[rows[i]][c]]), Zero)

ForecastPeriods == {q \in Range(baseline.pools.index) : q > LastActual}

\* C7: in the baseline every period after the last actual period holds, in
\* each pool column and each base column, the mean of that column over the
\* actual periods among the run_rate_months months that end at the last
\* actual period.
C7_RunRateOfTrailingMonths ==
    BaselineBuilt =>
      \A q \in ForecastPeriods :
         /\ \A c \in actual.pools.columns :
               baseline.pools.data[q][c] = TrailingMean(actual.pools, c)
         /\ \A c \in actual.bases.columns :
               baseline.bases.data[q][c] = TrailingMean(actual.bases, c)

\* The sequence of the months first, first + 1, ..., last.
Contiguous(index, first, last) ==
    /\ Len(index) = last - first + 1
    /\ \A i \in DOMAIN index : index[i] = first + (i - 1)

ProjectedRange(index) ==
    Contiguous(index, EarliestActual, LastActual + params.forecast_months)

\* C8: the period index of the pools and bases of the baseline and of the
\* scenario projection, and of the rates table, is the contiguous ascending
\* sequence of months from the earliest actual period through last_actual +
\* forecast_months, also when the actual data skips months.
C8_ContiguousPeriodIndex ==
    /\ BaselineBuilt =>
         ProjectedRange(baseline.pools.index) /\ ProjectedRange(baseline.bases.index)
    /\ Projected =>
         ProjectedRange(projection.pools.index) /\ ProjectedRange(projection.bases.index)
    /\ Computed => ProjectedRange(result.rates.index)

\* The actual pools skip a month, events were applied, the rates are computed.
C8_Witness ==
    /\ Computed
    /\ Len(actual.pools.index) < LastActual - EarliestActual + 1
    /\ projection # baseline
    /\ Len(result.rates.index) > Len(actual.pools.index) + params.forecast_months

\* The scenario of an event row; a blank cell counts as "Base" (line 209).
ScenarioOf(e) == IF e.Scenario = "NaN" THEN "Base" ELSE e.Scenario

NoMatchingRow ==
    \A i \in DOMAIN scenario_events.rows :
       ScenarioOf(scenario_events.rows[i]) # params.scenario

\* C10: apply_scenario_events returns the input projection unchanged when the
\* event table is empty or no row of it has the requested scenario.
C10_NoOpWithoutMatchingEvent ==
    Projected /\ (scenario_events.rows = <<>> \/ NoMatchingRow)
      => projection = baseline

\* A table with events, none of the requested scenario, has been applied.
C10_Witness ==
    /\ pc = "projected"
    /\ scenario_events.rows # <<>>
    /\ NoMatchingRow
    /\ \E i \in DOMAIN scenario_events.rows :
          \E p \in Range(baseline.pools.index) :
             p >= scenario_events.rows[i].EffectivePeriod

(***************************************************************************)
(* Properties of apply_scenario_events.                                    *)
(***************************************************************************)
\* The rows of the event table that belong to the requested scenario.
OwnRows ==
    SelectSeq(scenario_events.rows, LAMBDA e : ScenarioOf(e) = params.scenario)

\* The pool delta an event carries for the pool column c.
PoolDeltaOf(e, c) ==
    LET cols == SelectSeq(DeltaPoolColumns, LAMBDA k :
                   k \in scenario_events.columns /\ pool_name_of(k) = c)
    IN  SumSeq([i \in DOMAIN cols |-> e.pool[cols[i]]])

\* The value of pool c in period p before the events, 0 for a new column.
BaselinePool(p, c) ==
    IF c \in baseline.pools.columns THEN baseline.pools.data[p][c] ELSE Zero

\* C11: one event with effective period E and pool delta d for pool P leaves
\* every pool unchanged in every period before E and raises pool P by exactly
\* d in E and in every later period; a pool without a delta is unchanged.
C11_StickyPoolDelta ==
    Projected /\ Len(OwnRows) = 1 =>
      LET e == OwnRows[1]
      IN  /\ projection.pools.index = baseline.pools.index
          /\ baseline.pools.columns \subseteq projection.pools.columns
          /\ \A p \in Range(projection.pools.index) :
                \A c \in projection.pools.columns :
                   projection.pools.data[p][c] =
                      IF p >= e.EffectivePeriod
                      THEN RAdd(BaselinePool(p, c), PoolDeltaOf(e, c))
                      ELSE BaselinePool(p, c)

\* One event applied with a period before its effective period and two
\* periods from it on, the last of them raised.
C11_Witness ==
    /\ pc = "projected"
    /\ Len(OwnRows) = 1
    /\ LET e == OwnRows[1]
           idx == baseline.pools.index
       IN  /\ idx[1] < e.EffectivePeriod
           /\ Cardinality({p \in Range(idx) : p >= e.EffectivePeriod}) >= 2
           /\ projection.pools.data[idx[Len(idx)]]["Fringe"]
                 = RAdd(baseline.pools.data[idx[Len(idx)]]["Fringe"], R(3))
           /\ projection.pools.data[idx[1]] = [c \in projection.pools.columns |->
                                                 BaselinePool(idx[1], c)]

\* The permutations of the rows of the event table.
RowOrders ==
    LET n == Len(scenario_events.rows)
    IN  {[i \in 1 .. n |-> scenario_events.rows[f[i]]] :
           f \in {g \in [1 .. n -> 1 .. n] : \A i, j \in 1 .. n : g[i] = g[j] => i = j}}

\* The call of ApplyScenarioEvents on another event table.
AppliedTo(rows) ==
    apply_scenario_events(baseline, [scenario_events EXCEPT !.rows = rows],
                          params.scenario,
                          params.with_config /\ DOMAIN config.base_account_map # {})

\* The baseline's pool c in period p raised by the pool deltas of the events
\* of rows that are effective in p.
ExpectedPool(rows, p, c) ==
    RAdd(BaselinePool(p, c),
         SumSeq([i \in DOMAIN rows |->
                   IF p >= rows[i].EffectivePeriod THEN PoolDeltaOf(rows[i], c)
                   ELSE Zero]))

\* The amount x of a direct-cost row raised by the deltas of the events of
\* rows that name the row's project and are effective in its period.
ExpectedDirect(rows, row, x) ==
    RAdd(row.c[x],
         SumSeq([i \in DOMAIN rows |->
                   IF /\ rows[i].Project # ""
                      /\ rows[i].Project = row.Project
                      /\ row.Period >= rows[i].EffectivePeriod
                   THEN rows[i].delta[x] ELSE Zero]))

PoolsAre(rows) ==
    \A p \in Range(projection.pools.index) : \A c \in projection.pools.columns :
       projection.pools.data[p][c] = ExpectedPool(rows, p, c)

DirectIs(rows) ==
    /\ Len(projection.direct_by_project) = Len(baseline.direct_by_project)
    /\ \A i \in DOMAIN baseline.direct_by_project : \A x \in DirectCols :
          projection.direct_by_project[i].c[x]
             = ExpectedDirect(rows, baseline.direct_by_project[i], x)

\* C12: the pool deltas and the direct-cost deltas of several events of the
\* requested scenario add up, and pools, direct costs and bases are the same
\* for every order of the event rows.
C12_EventsAddUpInAnyOrder ==
    Projected /\ Len(OwnRows) >= 2 =>
      /\ PoolsAre(OwnRows)
      /\ DirectIs(OwnRows)
      /\ \A rows \in RowOrders :
            /\ AppliedTo(rows).pools = projection.pools
            /\ AppliedTo(rows).direct_by_project = projection.direct_by_project
            /\ AppliedTo(rows).bases = projection.bases

\* Two events of the requested scenario with the same effective period and
\* project and different deltas were applied to rows of the project.
C12_Witness ==
    /\ pc = "projected"
    /\ Len(OwnRows) = 2
    /\ OwnRows[1].EffectivePeriod = OwnRows[2].EffectivePeriod
    /\ OwnRows[1].Project = OwnRows[2].Project
    /\ OwnRows[1].delta # OwnRows[2].delta
    /\ \E i \in DOMAIN baseline.direct_by_project :
          /\ baseline.direct_by_project[i].Project = OwnRows[1].Project
          /\ baseline.direct_by_project[i].Period >= OwnRows[1].EffectivePeriod
          /\ projection.direct_by_project[i].c["DirectLabor$"]
                = RAdd(baseline.direct_by_project[i].c["DirectLabor$"], R(1))

(***************************************************************************)
(* The rate engine over a fiscal-year boundary: compute_rates_and_impacts  *)
(* with fy_start, on projections of November to February, and with a rate  *)
(* definition whose base the projection lacks.                             *)
(***************************************************************************)
RatePeriods == <<FirstPeriod - 1, FirstPeriod, FirstPeriod + 1, FirstPeriod + 2>>

\* The months since the first period.
Since(p) == p - RatePeriods[1]

RatesProjection(f, g, b) ==
    [pools |-> [index |-> RatePeriods, columns |-> PoolNames,
                data |-> [p \in Range(RatePeriods) |->
                            [c \in PoolNames |->
                               CASE c = "Fringe1"  -> R(f * (Since(p) + 1))
                                 [] c = "Fringe2"  -> R(1)
                                 [] c = "Overhead" -> R(2)
                                 [] c = "G&A"      -> R(g + Since(p))]]],
     bases |-> [index |-> RatePeriods, columns |-> BaseKeys,
                data |-> [p \in Range(RatePeriods) |->
                            [c \in BaseKeys |->
                               CASE c = "DL"  -> R(b + Since(p))
                                 [] c = "TL"  -> R(b + Since(p))
                                 [] c = "DLH" -> R(2)
                                 [] c = "TCI" -> R(b + Since(p) + 2)]]],
     direct_by_project |->
        [i \in DOMAIN RatePeriods |->
           DirectRow(RatePeriods[i], "P1", b + Since(RatePeriods[i]), 2, 1, 1, 0)],
     assumptions |-> [scenario |-> "Base", events_applied |-> 0],
     warnings |-> <<>>]

\* A rate on a base key that no bases table has.
UnknownBaseRates ==
    <<RateDefinition("Fringe", <<"Fringe1", "Fringe2">>, "TL", 0),
      RateDefinition("G&A", <<"G&A">>, "VAB", 1)>>

RatesConfigs ==
    {[rates |-> r, unallowable_pool_names |-> {"Unallowable"}, base_account_map |-> <<>>] :
       r \in {TieredRates(0, 0, 0), TieredRates(0, 1, 2), UnknownBaseRates}}

\* No fiscal year, and fiscal years that start in November, December, January.
FiscalYearStarts == {NoPeriod, PeriodOf(0, 11), PeriodOf(0, 12), PeriodOf(1, 1)}

InitRates ==
    /\ pc = "projected"
    /\ config \in RatesConfigs
    /\ projection \in {RatesProjection(f, g, b) :
                         f \in Amounts, g \in Amounts, b \in -1 .. MaxAmount}
    /\ params \in {[fy_start |-> s] : s \in FiscalYearStarts}
    /\ gl_actuals = None
    /\ account_map = None
    /\ direct_costs = None
    /\ gl_mapped = None
    /\ actual = None
    /\ baseline = None
    /\ scenario_events = None
    /\ result = None
    /\ results = None
    /\ db_rows = None

NextRates == ComputeRatesAndImpacts

SpecRates == InitRates /\ [][NextRates]_vars

(***************************************************************************)
(* Properties of the year-to-date rates and of the failure on an unknown   *)
(* base.                                                                   *)
(***************************************************************************)
\* The most recent period at or before p whose month is the month of fy_start.
FiscalYearStart(p) ==
    CHOOSE q \in (p - 11) .. p : Month(q) = Month(params.fy_start)

\* The periods of the projection from the fiscal-year start of p through p.
FiscalWindow(p) ==
    {q \in Range(projection.pools.index) : FiscalYearStart(p) <= q /\ q <= p}

WindowPool(rd, p) ==
    SumOver([q \in FiscalWindow(p) |-> pool_total(projection.pools, rd, q)],
            FiscalWindow(p))

WindowBase(rd, p) ==
    SumOver([q \in FiscalWindow(p) |-> projection.bases.data[q][rd.base]],
            FiscalWindow(p))

\* The mean of the monthly rates of the window of p.
MeanOfMonthlyRates(rd, p) ==
    RDiv(SumOver([q \in FiscalWindow(p) |-> result.rates.data[q][rd.name]],
                 FiscalWindow(p)),
         R(Cardinality(FiscalWindow(p))))

\* C13: the year-to-date rate of a period is the sum of the rate's pool totals
\* over the window from the period's fiscal-year start through the period,
\* divided by the sum of the rate's base over that window (0 for a zero sum).
C13_YtdIsRatioOfWindowSums ==
    Computed /\ result.has_ytd =>
      /\ result.ytd_rates.index = projection.pools.index
      /\ \A p \in Range(projection.pools.index) : \A rd \in RateDefs :
            result.ytd_rates.data[p][rd.name] =
               IF WindowBase(rd, p) = Zero THEN Zero
               ELSE RDiv(WindowPool(rd, p), WindowBase(rd, p))

\* A period whose window has two periods and leaves out the periods of the
\* fiscal year before, with a rate that is not the mean of the monthly rates.
C13_Witness ==
    /\ Computed
    /\ result.has_ytd
    /\ \E p \in Range(projection.pools.index) : \E rd \in RateDefs :
          /\ Cardinality(FiscalWindow(p)) = 2
          /\ \E q \in Range(projection.pools.index) : q < FiscalYearStart(p)
          /\ result.ytd_rates.data[p][rd.name][1] # 0
          /\ result.ytd_rates.data[p][rd.name] # MeanOfMonthlyRates(rd, p)

\* C14: in a period whose month is the fiscal-year-start month the
\* year-to-date rate of every rate equals the monthly rate of that period.
C14_FirstPeriodYtdIsMonthly ==
    Computed /\ result.has_ytd =>
      \A p \in Range(projection.pools.index) :
         Month(p) = Month(params.fy_start) =>
            \A rd \in RateDefs :
               result.ytd_rates.data[p][rd.name] = result.rates.data[p][rd.name]

\* A first period of a fiscal year that follows periods of the year before,
\* with a non-zero rate that differs from the rate over all periods so far.
C14_Witness ==
    /\ Computed
    /\ result.has_ytd
    /\ \E p \in Range(projection.pools.index) : \E rd \in RateDefs :
          /\ Month(p) = Month(params.fy_start)
          /\ p > projection.pools.index[1]
          /\ result.ytd_rates.data[p][rd.name][1] # 0
          /\ LET before == {q \in Range(projection.pools.index) : q <= p}
                 sp == SumOver([q \in before |-> pool_total(projection.pools, rd, q)], before)
                 sb == SumOver([q \in before |-> projection.bases.data[q][rd.base]], before)
             IN  sb[1] # 0 /\ RDiv(sp, sb) # result.rates.data[p][rd.name]

\* C16: compute_rates_and_impacts fails, with no rates and no impacts,
\* exactly when a rate definition names a base key that is no column of the
\* projection's bases.
C16_UnknownBaseFails ==
    pc = "done" =>
      /\ result.status = "ValueError"
            <=> \E i \in DOMAIN config.rates :
                   config.rates[i].base \notin projection.bases.columns
      /\ result.status = "ValueError" => DOMAIN result = {"status"}

\* The second rate names the base VAB; the call has failed.
C16_Witness ==
    /\ pc = "done"
    /\ \E i \in DOMAIN config.rates :
          i > 1 /\ config.rates[i].base \notin projection.bases.columns
    /\ config.rates[1].base \in projection.bases.columns
    /\ result.status = "ValueError"

(***************************************************************************)
(* Properties of build_baseline_projection.                                *)
(***************************************************************************)
\* C15: build_baseline_projection fails and returns no projection exactly
\* when the actual pool table has no period.
C15_NoPoolActualsFails ==
    /\ pc = "failed" => baseline = None /\ Len(actual.pools.index) = 0
    /\ BaselineBuilt => Len(actual.pools.index) > 0

\* The ledger has rows, none of them remains in a pool, the call has failed.
C15_Witness ==
    /\ pc = "failed"
    /\ Len(gl_mapped.merged) > 0
    /\ actual.pools.columns = {}

\* The periods of table t that have fewer than n periods of t from themselves
\* onward, themselves included: its last n periods, or all of them.
LastRows(t, n) ==
    {p \in Range(t.index) : Cardinality({q \in Range(t.index) : q >= p}) <= n}

\* The periods of table t before the last actual period that have fewer than
\* n periods of t between themselves and the last actual period.
PrecedingRows(t, n) ==
    {p \in Range(t.index) :
        /\ p < LastActual
        /\ Cardinality({q \in Range(t.index) : p <= q /\ q < LastActual}) <= n}

\* The mean of column c of table t over its rows of the periods in S.
MeanOver(t, c, S) ==
    LET rows == SelectSeq(t.index, LAMBDA p : p \in S)
    IN  fillna(mean([i \in DOMAIN rows |-> t.data[rows[i]][c]]), Zero)

ThreeMonthRunRate == BaselineBuilt /\ params.run_rate_months = 3

\* C17: for a baseline built with run_rate_months = 3, every forecast period
\* holds, in each pool column and each base column, the unweighted mean of that
\* column over the last 3 periods of the actual table, the last one included,
\* and so the same value in every forecast period.
C17_FlatRunRateOfLastThree ==
    ThreeMonthRunRate =>
      \A q \in ForecastPeriods :
         /\ \A c \in actual.pools.columns :
               baseline.pools.data[q][c] =
                  MeanOver(actual.pools, c, LastRows(actual.pools, 3))
         /\ \A c \in actual.bases.columns :
               baseline.bases.data[q][c] =
                  MeanOver(actual.bases, c, LastRows(actual.bases, 3))

\* Four actual periods and two forecast periods: the run-rate leaves the
\* earliest actual period out.
C17_Witness ==
    /\ ThreeMonthRunRate
    /\ Len(actual.pools.index) = 4
    /\ Cardinality(ForecastPeriods) = 2

\* C17 as stated: the mean is taken over the 3 periods before the last actual
\* period.
C17_AsStated ==
    ThreeMonthRunRate =>
      \A q \in ForecastPeriods :
         /\ \A c \in actual.pools.columns :
               baseline.pools.data[q][c] =
                  MeanOver(actual.pools, c, PrecedingRows(actual.pools, 3))
         /\ \A c \in actual.bases.columns :
               baseline.bases.data[q][c] =
                  MeanOver(actual.bases, c, PrecedingRows(actual.bases, 3))

\* Line 274 of the call the pipeline makes.
UseGlBases == params.with_config /\ DOMAIN config.base_account_map # {}

\* The direct-cost rows of period p, and the sum of their column x.
DirectRowsOf(direct, p) == SelectSeq(direct, LAMBDA r : r.Period = p)

DirectTotal(direct, p, x) ==
    SumSeq([i \in DOMAIN DirectRowsOf(direct, p) |-> DirectRowsOf(direct, p)[i].c[x]])

\* C18: when the bases are not ledger-derived and at least one event of the
\* requested scenario exists, every projected period that has direct-cost rows
\* holds DL = TL = the sum of DirectLabor$, DLH = the sum of DirectLaborHrs
\* and TCI = the sum of DirectLabor$, Subk, ODC and Travel over the adjusted
\* direct-cost rows of the period.
C18_LegacyBasesRecomputed ==
    Projected /\ ~UseGlBases /\ OwnRows # <<>> =>
      \A p \in Range(projection.bases.index) :
         DirectRowsOf(projection.direct_by_project, p) # <<>> =>
           LET total(x) == DirectTotal(projection.direct_by_project, p, x)
               b == projection.bases.data[p]
           IN  /\ b["DL"]  = total("DirectLabor$")
               /\ b["TL"]  = total("DirectLabor$")
               /\ b["DLH"] = total("DirectLaborHrs")
               /\ b["TCI"] = RAdd(RAdd(RAdd(total("DirectLabor$"), total("Subk")),
                                       total("ODC")), total("Travel"))

\* Without a base-account map, an event has changed the direct costs of a
\* period with two projects, and the bases of the period have moved with them.
C18_Witness ==
    /\ pc = "projected"
    /\ DOMAIN config.base_account_map = {}
    /\ OwnRows # <<>>
    /\ \E p \in Range(projection.bases.index) :
          /\ Len(DirectRowsOf(projection.direct_by_project, p)) = 2
          /\ DirectTotal(projection.direct_by_project, p, "Subk")
                # DirectTotal(baseline.direct_by_project, p, "Subk")
          /\ projection.bases.data[p]["TCI"] # baseline.bases.data[p]["TCI"]
          /\ projection.bases.data[p]["DL"] # baseline.bases.data[p]["DL"]

\* The change of the sum of column x over the direct-cost rows of period p.
DirectChange(p, x) ==
    RSub(DirectTotal(projection.direct_by_project, p, x),
         DirectTotal(baseline.direct_by_project, p, x))

\* The change of the direct-cost aggregate that base column k stands for.
BaseChange(p, k) ==
    CASE k \in {"DL", "TL"} -> DirectChange(p, "DirectLabor$")
      [] k = "DLH"          -> DirectChange(p, "DirectLaborHrs")
      [] k = "TCI"          -> RAdd(RAdd(RAdd(DirectChange(p, "DirectLabor$"),
                                              DirectChange(p, "Subk")),
                                         DirectChange(p, "ODC")),
                                    DirectChange(p, "Travel"))
      [] OTHER              -> Zero

\* C19: when apply_scenario_events is given a configuration with a base-account
\* map, every base column of every period is the baseline's value plus the
\* change of the matching direct-cost aggregate of the period: DL and TL move
\* by the labor dollars, DLH by the hours, TCI by labor, Subk, ODC and Travel.
C19_LedgerBasesMoveByDelta ==
    Projected /\ UseGlBases =>
      /\ projection.bases.index = baseline.bases.index
      /\ projection.bases.columns = baseline.bases.columns
      /\ \A p \in Range(projection.bases.index) :
            \A k \in projection.bases.columns :
               projection.bases.data[p][k]
                  = RAdd(baseline.bases.data[p][k], BaseChange(p, k))

\* An event has changed the labor of a period whose ledger-derived DL differs
\* from the direct-cost labor, and the difference is still there.
C19_Witness ==
    /\ pc = "projected"
    /\ UseGlBases
    /\ \E p \in Range(projection.bases.index) :
          /\ DirectChange(p, "DirectLabor$") # Zero
          /\ DirectChange(p, "Subk") # Zero
          /\ baseline.bases.data[p]["DL"]
                # DirectTotal(baseline.direct_by_project, p, "DirectLabor$")
          /\ RSub(projection.bases.data[p]["DL"],
                  DirectTotal(projection.direct_by_project, p, "DirectLabor$"))
               = RSub(baseline.bases.data[p]["DL"],
                      DirectTotal(baseline.direct_by_project, p, "DirectLabor$"))

\* The rows of the event table that belong to another scenario.
ForeignRows ==
    SelectSeq(scenario_events.rows, LAMBDA e : ScenarioOf(e) # params.scenario)

\* C20: the pools, the direct costs and the bases of the projection are those
\* of the event table reduced to the rows of the requested scenario, a row
\* without scenario name counting as "Base": the pools and the direct costs are
\* the baseline's raised by the deltas of these rows alone.
C20_OnlyRequestedScenarioApplies ==
    Projected =>
      /\ PoolsAre(OwnRows)
      /\ DirectIs(OwnRows)
      /\ projection.pools = AppliedTo(OwnRows).pools
      /\ projection.direct_by_project = AppliedTo(OwnRows).direct_by_project
      /\ projection.bases = AppliedTo(OwnRows).bases

\* A table with a row of the requested scenario and a row of another one, the
\* latter effective in a projected period and carrying a pool delta and a
\* delta for a project that has rows, has been applied.
C20_Witness ==
    /\ pc = "projected"
    /\ OwnRows # <<>>
    /\ projection # baseline
    /\ \E i \in DOMAIN ForeignRows :
          LET e == ForeignRows[i]
          IN  /\ \E p \in Range(baseline.pools.index) : p >= e.EffectivePeriod
              /\ \E c \in DOMAIN e.pool : fillna(e.pool[c], Zero) # Zero
              /\ \E j \in DOMAIN baseline.direct_by_project :
                    /\ baseline.direct_by_project[j].Project = e.Project
                    /\ baseline.direct_by_project[j].Period >= e.EffectivePeriod
              /\ \E x \in DirectCols : fillna(e.delta[x], Zero) # Zero

(***************************************************************************)
(* The scenarios of one run: AnalystAgent.run computes every scenario of   *)
(* the plan from the same baseline object, one after the other.  The model *)
(* is of values, not of objects, so what a call leaves in the object it    *)
(* was handed is modelled by the fields the call copies before it writes.  *)
(***************************************************************************)
\* A variant that writes the pool deltas into the table it was handed.
copied_before_write_but_pools(field) ==
    field \in {"direct_by_project", "bases", "assumptions"}

\* model.py lines 214, 215, 277 and 312, 320: the .copy() of pools,
\* direct_by_project and bases and the dict() of the assumptions; the list of
\* warnings is handed on as it is and never written.
copied_before_write(field) ==
    field \in {"pools", "direct_by_project", "bases", "assumptions"}

\* The Projection object handed to apply_scenario_events, after the call that
\* returned output: a field that is not copied holds what the call wrote.
projection_after_call(input, output) ==
    [f \in DOMAIN input |-> IF copied_before_write(f) THEN input[f] ELSE output[f]]

\* plan.scenarios: the scenarios of a run, in the order of their computation.
ScenarioPlans ==
    {<<"Base">>, <<"Upside">>, <<"Base", "Upside">>, <<"Upside", "Base">>}

\* An event that changes the direct labor of a project and no pool.
DirectOnlyEvent(scenario, effective, project, labor) ==
    [Scenario |-> scenario, EffectivePeriod |-> effective, Project |-> project,
     delta |-> [x \in DirectCols |-> IF x = "DirectLabor$" THEN R(labor) ELSE Zero],
     pool |-> [c \in {"DeltaPoolFringe", "DeltaPoolGA"} |-> Zero]]

\* Tables of two scenarios that differ in the direct-labor delta of project P1
\* only: a win and a loss, two losses, two wins.
DirectOnlyTables ==
    {[columns |-> EventColumns,
      rows |-> <<DirectOnlyEvent("Base", FirstPeriod + 1, "P1", a),
                 DirectOnlyEvent("Upside", FirstPeriod + 1, "P1", b)>>] :
       a \in {-1, 2}, b \in {-1, 1}}

\* synth.py lines 72-75: the "Base" row of the generated event table, all of
\* its deltas 0, without project and with one.
ZeroDeltaTables ==
    {[columns |-> EventColumns,
      rows |-> <<DirectOnlyEvent("Base", FirstPeriod + 1, j, 0)>>] : j \in {"", "P1"}}

InitScenarios ==
    /\ pc = "mapped"
    /\ \E call \in Calls, fm \in 1 .. MaxForecast, plan \in ScenarioPlans :
          /\ config = call[1]
          /\ params = [forecast_months |-> fm, run_rate_months |-> 2,
                       fy_start |-> NoPeriod, scenarios |-> plan,
                       with_config |-> call[2]]
    /\ gl_mapped = [merged |-> ObservedLedger(<<0, 1, 2>>, TRUE), warnings |-> <<>>]
    /\ direct_costs \in BaselineDirectCosts
    /\ scenario_events \in EventTables \cup DirectOnlyTables \cup ZeroDeltaTables
    /\ gl_actuals = None
    /\ account_map = None
    /\ actual = None
    /\ baseline = None
    /\ projection = None
    /\ result = None
    /\ results = <<>>
    /\ db_rows = None

\* agents.py lines 60-62 for the next scenario of the plan.
ComputeScenario ==
    /\ pc = "baseline"
    /\ Len(results) < Len(params.scenarios)
    /\ LET scenario == params.scenarios[Len(results) + 1]
           proj == apply_scenario_events(
                      baseline, scenario_events, scenario,
                      params.with_config /\ DOMAIN config.base_account_map # {})
       IN  /\ projection' = proj
           /\ result' = compute_rates_and_impacts(proj, config, params.fy_start)
           /\ results' = Append(results, [scenario |-> scenario, projection |-> proj,
                                          result |-> result'])
           /\ baseline' = projection_after_call(baseline, proj)
    /\ UNCHANGED <<pc, config, gl_actuals, account_map, direct_costs, gl_mapped,
                   actual, params, scenario_events, db_rows>>

NextScenarios ==
    \/ ComputeActualAggregates
    \/ BuildBaselineProjection
    \/ ComputeScenario

SpecScenarios == InitScenarios /\ [][NextScenarios]_vars

\* The baseline as build_baseline_projection returned it.
BuiltBaseline ==
    build_baseline_projection(actual.pools, actual.bases, actual.direct_by_project,
                              params.forecast_months, params.run_rate_months)

\* The result of scenario s computed from the baseline on its own.
ScenarioAlone(s) ==
    LET proj == apply_scenario_events(BuiltBaseline, scenario_events, s, UseGlBases)
    IN  [scenario |-> s, projection |-> proj,
         result |-> compute_rates_and_impacts(proj, config, params.fy_start)]

ActualRowsInWindow(j) ==
    SelectSeq(actual.direct_by_project,
              LAMBDA r : r.Project = j /\ r.Period \in TrailingMonths)

\* The rows of the baseline's direct costs for period q and project j.
BaselineRows(q, j) ==
    SelectSeq(baseline.direct_by_project, LAMBDA r : r.Period = q /\ r.Project = j)

\* C22: in the baseline every forecast period holds, for each project with
\* actual rows among the run_rate_months months that end at the last actual
\* period, one row with the project's mean over these rows, and no row for a
\* project without such rows.
C22_ProjectRunRateOfWindow ==
    BaselineBuilt =>
      \A q \in ForecastPeriods : \A j \in Range(ProjectOrder) :
         LET rows == ActualRowsInWindow(j)
         IN  IF rows = <<>> THEN BaselineRows(q, j) = <<>>
             ELSE /\ Len(BaselineRows(q, j)) = 1
                  /\ \A x \in DirectCols :
                        BaselineRows(q, j)[1].c[x]
                           = mean([i \in DOMAIN rows |-> rows[i].c[x]])

(***************************************************************************)
(* Aggregation and baseline on ledgers and project ledgers of two months   *)
(* whose totals agree, differ by one part in twenty or differ widely, and  *)
(* whose first month can be negative.                                      *)
(***************************************************************************)
\* Legacy mode, ledger-primary mode with the direct-labor account as the DL and
\* the TCI base, and ledger-primary mode with a DL base alone.
WarningConfigs ==
    {[rates |-> LedgerRates, unallowable_pool_names |-> {"Unallowable"},
      base_account_map |-> m] :
       m \in {<<>>, [k \in {"DL", "TCI"} |-> {"5100"}], [k \in {"DL"} |-> {"5100"}]}}

\* The direct-labor amount of the first month; the second month holds 10.
FirstMonthLabor == {-11, 0, 9, 10}

\* The direct-labor hours of the first month; the second month holds 1.
FirstMonthHours == {-2, 1}

WarningLedger(g) ==
    <<MappedRow(FirstPeriod, "6000", "Fringe", 1),
      MappedRow(FirstPeriod, "5100", "Direct", g),
      MappedRow(FirstPeriod + 1, "6000", "Fringe", 2),
      MappedRow(FirstPeriod + 1, "5100", "Direct", 10)>>

WarningDirectCosts(d, h) ==
    <<DirectRow(FirstPeriod, "P1", d, h, 0, 0, 0),
      DirectRow(FirstPeriod + 1, "P1", 10, 1, 0, 0, 0)>>

InitWarnings ==
    /\ pc = "mapped"
    /\ config \in WarningConfigs
    /\ \E fm \in 1 .. MaxForecast :
          params = [forecast_months |-> fm, run_rate_months |-> 2]
    /\ \E g \in FirstMonthLabor :
          gl_mapped = [merged |-> WarningLedger(g), warnings |-> <<>>]
    /\ \E d \in FirstMonthLabor, h \in FirstMonthHours :
          direct_costs = WarningDirectCosts(d, h)
    /\ gl_actuals = None
    /\ account_map = None
    /\ actual = None
    /\ baseline = None
    /\ scenario_events = None
    /\ projection = None
    /\ result = None
    /\ results = None
    /\ db_rows = None

NextWarnings ==
    \/ ComputeActualAggregates
    \/ BuildBaselineProjection

SpecWarnings == InitWarnings /\ [][NextWarnings]_vars

NegativeBaseWarning == "Negative base values detected; rates may be distorted."

\* C23: build_baseline_projection never fails on a pool table with periods,
\* and the warnings of its Projection hold the negative-base warning exactly
\* when a base value of some base column in some period is negative.
C23_WarnsOnAnyNegativeBase ==
    /\ pc = "failed" => no_pool_actuals(actual.pools)
    /\ BaselineBuilt =>
         (NegativeBaseWarning \in Range(baseline.warnings)
            <=> \E p \in Range(baseline.bases.index) : \E c \in baseline.bases.columns :
                   RLt(baseline.bases.data[p][c], Zero))

Aggregated == pc \in {"aggregated", "baseline", "failed"}

\* The total of base key k over the periods of the ledger-derived bases.
LedgerTotal(k) == ColumnTotal(actual.bases, k)

\* The total of base key k over the rows of the project ledger.
ProjectLedgerTotal(k) ==
    SumSeq([i \in DOMAIN direct_costs |->
              IF k = "DL" THEN direct_costs[i].c["DirectLabor$"]
              ELSE row_TCI(direct_costs[i])])

ReconciliationWarning(k) ==
    IF k = "DL" THEN "GL-derived DL base differs from project ledger"
    ELSE "GL-derived TCI base differs from project ledger"

\* C24: with a base-account map, compute_actual_aggregates returns, and its
\* warnings hold the reconciliation warning of a base key DL or TCI of the map
\* exactly when the ledger-derived total and the project-ledger total of the
\* key differ by more than 5% of the ledger-derived total.
C24_WarnsAboveFivePercentOfLedger ==
    /\ pc # "mapped" => Aggregated
    /\ Aggregated /\ DOMAIN config.base_account_map # {} =>
         \A k \in {"DL", "TCI"} \cap DOMAIN config.base_account_map :
            LET diff == RSub(LedgerTotal(k), ProjectLedgerTotal(k))
                dist == IF RLt(diff, Zero) THEN RSub(Zero, diff) ELSE diff
            IN  ReconciliationWarning(k) \in Range(actual.warnings)
                  <=> RLt(RMul(<<1, 20>>, LedgerTotal(k)), dist)

(***************************************************************************)
(* Properties of the scenario results.                                     *)
(***************************************************************************)
AssumptionKeys ==
    {"forecast_months", "run_rate_months", "method", "run_rate_pool_means",
     "run_rate_base_means", "last_actual_period", "scenario", "events_applied"}

\* The number of rows of the event table that belong to scenario s.
MatchingEvents(s) ==
    Len(SelectSeq(scenario_events.rows, LAMBDA e : ScenarioOf(e) = s))

\* C25: the assumptions of every scenario result hold the eight keys, the
\* requested scenario under scenario and the number of events of that scenario
\* under events_applied, 0 when no event matches.
C25_AssumptionsOfEveryResult ==
    \A i \in DOMAIN results :
       LET assumptions == results[i].projection.assumptions
       IN  /\ AssumptionKeys \subseteq DOMAIN assumptions
           /\ assumptions["scenario"] = results[i].scenario
           /\ assumptions["events_applied"] = MatchingEvents(results[i].scenario)

\* No row of the event table carries a pool delta.
NoPoolDeltas ==
    \A i \in DOMAIN scenario_events.rows :
       \A c \in DOMAIN scenario_events.rows[i].pool :
          fillna(scenario_events.rows[i].pool[c], Zero) = Zero

\* The base and the rate of rate definition rd in period p of result r.
BaseIn(r, rd, p) == r.projection.bases.data[p][rd.base]

RateIn(r, rd, p) == r.result.rates.data[p][rd.name]

\* In period p the rate rd of result r is at least that of result s whenever
\* its base is at most that of s, the pool total is not negative and both
\* bases are positive.
LowerBaseHigherRate(r, s, rd, p) ==
    /\ RLeq(Zero, pool_total(baseline.pools, rd, p))
    /\ RLt(Zero, BaseIn(r, rd, p))
    /\ RLeq(BaseIn(r, rd, p), BaseIn(s, rd, p))
    => RLeq(RateIn(s, rd, p), RateIn(r, rd, p))

\* C26: with recomputed bases and an event table without pool deltas, of two
\* scenarios computed from the same baseline the one with the lower base in a
\* period has the rate that is greater or equal in that period, for every rate
\* with a non-negative pool total and positive bases.
C26_LosingRaisesRates ==
    pc = "baseline" /\ Len(results) = 2 /\ ~UseGlBases /\ NoPoolDeltas =>
      \A p \in Range(baseline.pools.index) : \A rd \in Range(config.rates) :
         /\ LowerBaseHigherRate(results[1], results[2], rd, p)
         /\ LowerBaseHigherRate(results[2], results[1], rd, p)

\* A loss and a win of the same project: from the effective period on the
\* losing scenario has the lower base and the strictly higher rate, before it
\* the two scenarios have the same rates.
C26_Witness ==
    /\ pc = "baseline" /\ Len(results) = 2 /\ ~UseGlBases /\ NoPoolDeltas
    /\ scenario_events.rows # <<>>
    /\ \E rd \in Range(config.rates) :
          /\ \E p \in Range(baseline.pools.index) :
                /\ RLt(Zero, BaseIn(results[1], rd, p))
                /\ RLt(BaseIn(results[1], rd, p), BaseIn(results[2], rd, p))
                /\ RLt(RateIn(results[2], rd, p), RateIn(results[1], rd, p))
          /\ RateIn(results[1], rd, FirstPeriod) = RateIn(results[2], rd, FirstPeriod)

\* C27: the baseline's direct costs hold every input row of a period up to the
\* last actual period with its values, and hold no row of such a period for a
\* period and project that the input has no row for.
C27_ActualDirectCostsPreserved ==
    BaselineBuilt =>
      LET input == actual.direct_by_project
          output == baseline.direct_by_project
      IN  /\ \A i \in DOMAIN input :
                input[i].Period <= LastActual =>
                   \E k \in DOMAIN output : output[k] = input[i]
          /\ \A k \in DOMAIN output :
                output[k].Period <= LastActual =>
                   \E i \in DOMAIN input :
                      /\ input[i].Period = output[k].Period
                      /\ input[i].Project = output[k].Project

\* The rows of the event table that belong to scenario s all carry deltas of 0.
ZeroDeltas(s) ==
    \A i \in DOMAIN scenario_events.rows :
       LET e == scenario_events.rows[i]
       IN  ScenarioOf(e) = s =>
              /\ \A x \in DOMAIN e.delta : fillna(e.delta[x], Zero) = Zero
              /\ \A c \in DOMAIN e.pool : fillna(e.pool[c], Zero) = Zero

\* C28: when the bases are recomputed, the result of a scenario that has
\* events, all of them with deltas of 0, holds the pools, the bases and the
\* direct costs of the baseline, and its rates are the rates of the baseline.
C28_ZeroDeltasChangeNothing ==
    pc = "baseline" /\ ~UseGlBases =>
      \A i \in DOMAIN results :
         MatchingEvents(results[i].scenario) > 0 /\ ZeroDeltas(results[i].scenario) =>
            /\ results[i].projection.pools = baseline.pools
            /\ results[i].projection.bases = baseline.bases
            /\ results[i].projection.direct_by_project = baseline.direct_by_project
            /\ results[i].result.rates
                  = compute_rates_and_impacts(baseline, config, params.fy_start).rates

(***************************************************************************)
(* The cascade on projections whose bases are the sums of their project    *)
(* rows, as _bases_from_direct_costs computes them.                        *)
(***************************************************************************)
AbsorptionProjection(f, g, pdl) ==
    LET proj == CascadeProjection(f, g, 0, pdl)
    IN  [proj EXCEPT
           !.bases = bases_from_direct_costs(by_period_sums(proj.direct_by_project))]

InitAbsorption ==
    /\ pc = "projected"
    /\ config \in CascadeConfigs
    /\ projection \in {AbsorptionProjection(f, g, pdl) :
                         f \in Amounts, g \in Amounts, pdl \in {-1, 2}}
    /\ params \in {[fy_start |-> NoPeriod], [fy_start |-> FirstPeriod]}
    /\ gl_actuals = None
    /\ account_map = None
    /\ direct_costs = None
    /\ gl_mapped = None
    /\ actual = None
    /\ baseline = None
    /\ scenario_events = None
    /\ result = None
    /\ results = None
    /\ db_rows = None

NextAbsorption == ComputeRatesAndImpacts

SpecAbsorption == InitAbsorption /\ [][NextAbsorption]_vars

\* The bases of the projection are the per-period sums of its project rows.
BasesAreDirectSums ==
    \A p \in Range(projection.bases.index) :
       LET total(x) == DirectTotal(projection.direct_by_project, p, x)
           b == projection.bases.data[p]
       IN  /\ b["DL"]  = total("DirectLabor$")
           /\ b["TL"]  = total("DirectLabor$")
           /\ b["DLH"] = total("DirectLaborHrs")
           /\ b["TCI"] = RAdd(RAdd(RAdd(total("DirectLabor$"), total("Subk")),
                                   total("ODC")), total("Travel"))

LowestTier(rd) == \A s \in RateDefs : rd.cascade_order <= s.cascade_order

\* The dollar impact of rate rd in period p, summed over the projects.
AbsorbedDollars(rd, p) ==
    LET keys == {k \in ImpactKeys : PeriodOfKey(k) = p}
    IN  SumOver([k \in keys |-> result.impacts[k].dollar[rd.name]], keys)

\* C29: when the bases are the per-period sums of the project rows, for every
\* rate of the lowest tier and every period whose base is not 0 the dollar
\* impacts of the rate over all projects add up to the rate's pool total.
C29_LowestTierFullyAbsorbed ==
    Computed /\ BasesAreDirectSums =>
      \A rd \in RateDefs : \A p \in Range(projection.pools.index) :
         LowestTier(rd) /\ projection.bases.data[p][rd.base] # Zero =>
            AbsorbedDollars(rd, p) = pool_total(projection.pools, rd, p)

\* Two rates share a lowest tier above 0, the period has two projects and a
\* non-zero base and pool, and a rate of a higher tier absorbs more or less
\* than its pool.
C29_Witness ==
    /\ Computed /\ BasesAreDirectSums
    /\ \E r \in RateDefs, s \in RateDefs, t \in RateDefs :
          /\ r # s /\ LowestTier(r) /\ LowestTier(s) /\ r.cascade_order > 0
          /\ ~LowestTier(t)
          /\ projection.bases.data[FirstPeriod][r.base] # Zero
          /\ pool_total(projection.pools, r, FirstPeriod) # Zero
          /\ AbsorbedDollars(r, FirstPeriod) = pool_total(projection.pools, r, FirstPeriod)
          /\ Cardinality({k \in ImpactKeys : PeriodOfKey(k) = FirstPeriod}) = 2
          /\ AbsorbedDollars(t, FirstPeriod) # pool_total(projection.pools, t, FirstPeriod)

(***************************************************************************)
(* The bridge from the stored scenario events to the engine:               *)
(* db.build_scenario_events_df_from_db writes one DeltaPool column per     *)
(* pool name of pool_deltas, model.apply_scenario_events reads the pool    *)
(* name back from the column name.  Names are sequences of characters      *)
(* here, so that both conversions are computed as the code computes them.  *)
(* A stored event is [Scenario, EffectivePeriod, Project, pool_deltas],    *)
(* pool_deltas the sequence of the [name, delta] entries of the JSON       *)
(* object; the bridged table keeps its DeltaPool columns, spelled out, in  *)
(* pool_columns, apart from the columns with fixed names.                  *)
(***************************************************************************)
DeltaPoolPrefix == <<"D", "e", "l", "t", "a", "P", "o", "o", "l">>

\* db.py lines 1178-1179: "&" and " " are removed from the pool name.
delta_pool_column(pool_name) ==
    DeltaPoolPrefix \o SelectSeq(pool_name, LAMBDA ch : ch \notin {"&", " "})

\* model.py line 240: col.startswith("DeltaPool")
starts_with_delta_pool(col) ==
    /\ Len(col) >= Len(DeltaPoolPrefix)
    /\ SubSeq(col, 1, Len(DeltaPoolPrefix)) = DeltaPoolPrefix

\* model.py lines 241-244: the rest of the column name, "GA" read as "G&A".
pool_name_from_column(col) ==
    LET pool_name == SubSeq(col, Len(DeltaPoolPrefix) + 1, Len(col))
    IN  IF pool_name = <<"G", "A">> THEN <<"G", "&", "A">> ELSE pool_name

\* db.py lines 1160-1189 for the fetched rows, whose direct deltas are 0.
build_scenario_events_df(fetched) ==
    LET keys == UNION {{delta_pool_column(fetched[i].pool_deltas[k].name) :
                           k \in DOMAIN fetched[i].pool_deltas} : i \in DOMAIN fetched}
        \* d[col_key] = delta_val: a later entry of the same column wins.
        cell(i, key) ==
            LET deltas == fetched[i].pool_deltas
                hits == {k \in DOMAIN deltas : delta_pool_column(deltas[k].name) = key}
            IN  IF hits = {} THEN Zero
                ELSE deltas[CHOOSE k \in hits : \A h \in hits : h <= k].delta
    IN  IF fetched = <<>>
        THEN [columns |-> {}, pool_columns |-> {}, rows |-> <<>>]
        ELSE [columns |-> {"Scenario", "EffectivePeriod", "Type", "Project", "Notes"},
              pool_columns |-> keys,
              rows |-> [i \in DOMAIN fetched |->
                          [Scenario |-> fetched[i].Scenario,
                           EffectivePeriod |-> fetched[i].EffectivePeriod,
                           Project |-> fetched[i].Project,
                           delta |-> [x \in DirectCols |-> Zero],
                           pool |-> [key \in keys |-> cell(i, key)]]]]

\* model.py lines 254-257 for the DeltaPool columns in cols.
RECURSIVE add_bridged_pool_deltas(_, _, _, _)
add_bridged_pool_deltas(pools, cols, applicable, event) ==
    IF cols = {} THEN pools
    ELSE LET col == CHOOSE c \in cols : TRUE
         IN  add_bridged_pool_deltas(
                add_pool_delta(pools, pool_name_from_column(col), applicable,
                               fillna(event.pool[col], Zero)),
                cols \ {col}, applicable, event)

\* model.py lines 248-257: the loop over the events, in row order.
RECURSIVE apply_bridged_events(_, _, _)
apply_bridged_events(pools, cols, events) ==
    IF events = <<>> THEN pools
    ELSE LET event == Head(events)
             applicable == {p \in Range(pools.index) : p >= event.EffectivePeriod}
         IN  IF applicable = {}
             THEN apply_bridged_events(pools, cols, Tail(events))
             ELSE apply_bridged_events(
                     add_bridged_pool_deltas(pools, cols, applicable, event),
                     cols, Tail(events))

\* model.apply_scenario_events on a bridged table whose events name no project:
\* the direct costs and with them the bases stay as they are.
apply_bridged_scenario_events(input, bridged, scenario) ==
    LET events == matching_events(bridged, scenario)
        cols   == {c \in bridged.pool_columns : starts_with_delta_pool(c)}
    IN  IF bridged.rows = <<>> \/ "EffectivePeriod" \notin bridged.columns
        THEN input
        ELSE IF events = <<>>
        THEN input
        ELSE [input EXCEPT
                !.pools = fillna_table(apply_bridged_events(input.pools, cols, events)),
                !.assumptions = stamp(input.assumptions, scenario, Len(events))]

\* Pool names as the configuration and the stored events spell them.
StoredPoolNames ==
    {<<"G", "&", "A">>, <<"G", "A">>, <<"R", "&", "D">>, <<"H", " ", "I">>,
     <<"F", "r">>}

\* The pool_deltas of a stored event: one entry, or two of different pools.
StoredPoolDeltas ==
    {<<[name |-> n, delta |-> R(3)]>> : n \in StoredPoolNames}
      \cup {<<[name |-> nm[1], delta |-> R(3)], [name |-> nm[2], delta |-> R(1)]>> :
               nm \in {x \in StoredPoolNames \X StoredPoolNames : x[1] # x[2]}}

\* A baseline of two periods with one pool column for every pool name.
BridgeBaseline ==
    [pools |-> [index |-> CascadePeriods, columns |-> StoredPoolNames,
                data |-> [p \in Range(CascadePeriods) |->
                            [c \in StoredPoolNames |-> R(Len(c) + Shift(p))]]],
     bases |-> [index |-> CascadePeriods, columns |-> {},
                data |-> [p \in Range(CascadePeriods) |-> <<>>]],
     direct_by_project |-> <<>>,
     assumptions |-> <<>>,
     warnings |-> <<>>]

InitBridge ==
    /\ pc = "stored"
    /\ \E e \in FirstPeriod .. FirstPeriod + 2, deltas \in StoredPoolDeltas :
          db_rows = <<[Scenario |-> "Base", EffectivePeriod |-> e, Project |-> "",
                       pool_deltas |-> deltas]>>
    /\ baseline = BridgeBaseline
    /\ params = [scenario |-> "Base"]
    /\ config = None
    /\ gl_actuals = None
    /\ account_map = None
    /\ direct_costs = None
    /\ gl_mapped = None
    /\ actual = None
    /\ scenario_events = None
    /\ projection = None
    /\ result = None
    /\ results = None

BuildScenarioEventsDfFromDb ==
    /\ pc = "stored"
    /\ scenario_events' = build_scenario_events_df(db_rows)
    /\ pc' = "bridged"
    /\ UNCHANGED <<config, gl_actuals, account_map, direct_costs, gl_mapped, actual,
                   params, baseline, projection, result, results, db_rows>>

ApplyBridgedScenarioEvents ==
    /\ pc = "bridged"
    /\ projection' = apply_bridged_scenario_events(baseline, scenario_events,
                                                   params.scenario)
    /\ pc' = "projected"
    /\ UNCHANGED <<config, gl_actuals, account_map, direct_costs, gl_mapped, actual,
                   params, baseline, scenario_events, result, results, db_rows>>

NextBridge ==
    \/ BuildScenarioEventsDfFromDb
    \/ ApplyBridgedScenarioEvents

SpecBridge == InitBridge /\ [][NextBridge]_vars

\* The deltas stored for pool c by the events that are effective in period p.
StoredDelta(p, c) ==
    SumSeq([i \in DOMAIN db_rows |->
              IF p >= db_rows[i].EffectivePeriod
              THEN SumSeq([k \in DOMAIN db_rows[i].pool_deltas |->
                             IF db_rows[i].pool_deltas[k].name = c
                             THEN db_rows[i].pool_deltas[k].delta ELSE Zero])
              ELSE Zero])

\* C30: for every pool name N of the pool_deltas of a stored event the column
\* name the bridge writes is read back as N, and after the events are applied
\* every pool column holds the baseline's value raised by the deltas stored
\* for that pool, no other column is changed and none is added.
C30_PoolNameRoundTrip ==
    /\ pc = "stored" =>
         \A i \in DOMAIN db_rows : \A k \in DOMAIN db_rows[i].pool_deltas :
            pool_name_from_column(delta_pool_column(db_rows[i].pool_deltas[k].name))
               = db_rows[i].pool_deltas[k].name
    /\ pc = "projected" =>
         /\ projection.pools.columns = baseline.pools.columns
         /\ \A p \in Range(projection.pools.index) : \A c \in baseline.pools.columns :
               projection.pools.data[p][c]
                  = RAdd(baseline.pools.data[p][c], StoredDelta(p, c))

=============================================================================
